---- MODULE Spec2Model ----
(***************************************************************************)
(* A model of the bubble-graph phasing core of margin:                     *)
(*   - local phasing correctness (src/impl/localPhasingCorrectness.c),     *)
(*   - bubble-graph construction and consensus stitching                   *)
(*     (src/impl/bubbleGraph.c),                                           *)
(*   - the phasing driver and read-partition refinement                    *)
(*     (src/impl/bubbleGraph.c, src/impl/genomeFragment.c).                *)
(* Each subsystem has its own specification (SpecLPC, Spec, SpecPhase);    *)
(* the variables of the other subsystems stay at their idle values.        *)
(***************************************************************************)
EXTENDS Integers, Sequences, FiniteSets, TLC

(***************************************************************************)
(* Bounds of the model                                                     *)
(***************************************************************************)
\* number of variant positions a pair of phased-variant lists may span
MaxVariants == 4

(***************************************************************************)
(* Generic helpers                                                         *)
(***************************************************************************)
Range(s) == {s[x] : x \in DOMAIN s}

RECURSIVE Pow(_, _)
Pow(b, e) == IF e = 0 THEN 1 ELSE b * Pow(b, e - 1)

(***************************************************************************)
(* Local phasing correctness: src/impl/localPhasingCorrectness.c           *)
(*                                                                         *)
(* Doubles are modelled exactly as fixed-point integers in units of        *)
(* 1/Scale.  The decays of the model are 0, 1/2 and 1 and a sweep decays   *)
(* its accumulators once per counted variant, so every value that occurs   *)
(* is a multiple of 1/2^MaxVariants and the arithmetic is exact.           *)
(***************************************************************************)
Scale == Pow(2, MaxVariants)
One == Scale
Decays == {0, Scale \div 2, Scale}
\* decays that phasingCorrectness refuses: -1/2 and 3/2
BadDecays == {-(Scale \div 2), Scale + Scale \div 2}
MulDecay(x, d) == (x * d) \div Scale

VARIABLES
    queryPhasedVariants,  \* stList of PhasedVariant, sorted by refPos
    truthPhasedVariants,  \* stList of PhasedVariant, sorted by refPos
    decay,                \* the decay argument (fixed point)
    lpcPc,                \* position inside phasingCorrectness
    sweep,                \* locals of the running phasingCorrectnessInternal
    sw,                   \* locals of the running switchCorrectness
    forwardSums,          \* returnVal of the forward sweep
    reverseSums,          \* returnVal of the backward sweep
    lengthOut,            \* *lengthOut
    correctness           \* the returned quotient, kept as num/den

lpcVars == <<queryPhasedVariants, truthPhasedVariants, decay, lpcPc, sweep, sw,
             forwardSums, reverseSums, lengthOut, correctness>>

\* struct _phasedVariant: gt1, gt2 index the allele list from 0
PhasedVariant(pos, als, g1, g2, ps) ==
    [refPos |-> pos, alleles |-> als, gt1 |-> g1, gt2 |-> g2, phaseSet |-> ps]

AlleleOf(pv, g) == pv.alleles[g + 1]

\* the four stString_eq tests of both sweeps
MatchAlleles(qpv, tpv) ==
    [m11 |-> AlleleOf(qpv, qpv.gt1) = AlleleOf(tpv, tpv.gt1),
     m12 |-> AlleleOf(qpv, qpv.gt1) = AlleleOf(tpv, tpv.gt2),
     m21 |-> AlleleOf(qpv, qpv.gt2) = AlleleOf(tpv, tpv.gt1),
     m22 |-> AlleleOf(qpv, qpv.gt2) = AlleleOf(tpv, tpv.gt2)]

B2I(b) == IF b THEN 1 ELSE 0

\* "the site is shared, but the alleles are not, just skip this variant"
AllelesNotShared(m) == (~(m.m11 \/ m.m12)) \/ (~(m.m21 \/ m.m22))

\* "at least one allele must be duplicated in the list of alts"
DuplicateAlleles(m) == B2I(m.m11) + B2I(m.m12) + B2I(m.m21) + B2I(m.m22) > 2

\* the variant is counted by a sweep
Matchable(qpv, tpv) ==
    LET m == MatchAlleles(qpv, tpv) IN ~AllelesNotShared(m) /\ ~DuplicateAlleles(m)

\* the test of phaseSetIntervals that ends in st_errAbort: a variant lies
\* before the variant that precedes it in the list
OutOfOrder(pvs) == \E x \in 1..(Len(pvs) - 1) : pvs[x].refPos > pvs[x + 1].refPos

\* phaseSetIntervals: phase set -> <<first index, last index>> (0-based)
PhaseSetIntervals(pvs) ==
    [ps \in {pvs[x].phaseSet : x \in DOMAIN pvs} |->
        LET idx == {x \in DOMAIN pvs : pvs[x].phaseSet = ps}
        IN  <<(CHOOSE x \in idx : \A y \in idx : x <= y) - 1,
              (CHOOSE x \in idx : \A y \in idx : x >= y) - 1>>]

\* partialPhaseSums_construct followed by the initialisation of the new sum
NewPartialSums(qps, tps, match11) ==
    [queryPhaseSet |-> qps, truthPhaseSet |-> tps, unphasedSum |-> One,
     phaseSum1 |-> IF match11 THEN One ELSE 0,
     phaseSum2 |-> IF match11 THEN 0 ELSE One]

\* locals of phasingCorrectnessInternal at loop entry
SweepInit(q, t, forward) ==
    [i |-> IF forward THEN 0 ELSE Len(q) - 1,
     j |-> IF forward THEN 0 ELSE Len(t) - 1,
     sums |-> <<>>, totalSum |-> 0, partitionSum |-> 0,
     partitionTotalSum |-> 0, outOfScopeSum |-> 0, numPhased |-> 0]

SweepRunning(st, q, t) ==
    st.i >= 0 /\ st.i < Len(q) /\ st.j >= 0 /\ st.j < Len(t)

\* is the partial sum co-phased with the current pair of variants
CoPhased(s, qpv, tpv) ==
    s.queryPhaseSet = qpv.phaseSet /\ s.truthPhaseSet = tpv.phaseSet

\* what one partial sum contributes to totalSum at the current variant
SumContribution(s, qpv, tpv, match11) ==
    IF CoPhased(s, qpv, tpv)
    THEN (IF match11 THEN s.phaseSum1 ELSE s.phaseSum2)
    ELSE s.unphasedSum

\* the partial sum after the first loop over phaseSetPartialSums
SumRegistered(s, qpv, tpv, match11) ==
    [s EXCEPT !.phaseSum1 = IF CoPhased(s, qpv, tpv) /\ match11 THEN @ + One ELSE @,
              !.phaseSum2 = IF CoPhased(s, qpv, tpv) /\ ~match11 THEN @ + One ELSE @,
              !.unphasedSum = @ + One]

\* "decay all of the partial sums to prepare for the next iteration"
SumDecayed(s, d) ==
    [s EXCEPT !.unphasedSum = MulDecay(@, d),
              !.phaseSum1 = MulDecay(@, d),
              !.phaseSum2 = MulDecay(@, d)]

\* the scope test of the clean-up loop, on the advanced indexes i and j
OutOfScope(s, i, j, qIv, tIv) ==
    \/ i < qIv[s.queryPhaseSet][1] \/ i > qIv[s.queryPhaseSet][2]
    \/ j < tIv[s.truthPhaseSet][1] \/ j > tIv[s.truthPhaseSet][2]

\* the list without its k-th element, the last element moved into its place
RemoveAt(sums, k) ==
    IF k = Len(sums) THEN SubSeq(sums, 1, k - 1)
    ELSE SubSeq(sums, 1, k - 1) \o <<sums[Len(sums)]>> \o SubSeq(sums, k + 1, Len(sums) - 1)

\* the clean-up loop: a removed sum is replaced by the last one of the list
RECURSIVE CollectOutOfScope(_, _, _, _, _, _, _)
CollectOutOfScope(sums, k, oos, i, j, qIv, tIv) ==
    IF k > Len(sums) THEN [sums |-> sums, outOfScopeSum |-> oos]
    ELSE IF OutOfScope(sums[k], i, j, qIv, tIv)
         THEN CollectOutOfScope(RemoveAt(sums, k), k, oos + sums[k].unphasedSum,
                                i, j, qIv, tIv)
         ELSE CollectOutOfScope(sums, k + 1, oos, i, j, qIv, tIv)

\* the first loop over phaseSetPartialSums: what it adds to totalSum
RECURSIVE SumContributions(_, _, _, _)
SumContributions(sums, qpv, tpv, match11) ==
    IF sums = <<>> THEN 0
    ELSE SumContribution(Head(sums), qpv, tpv, match11)
         + SumContributions(Tail(sums), qpv, tpv, match11)

\* the first loop over phaseSetPartialSums: the sums it leaves
RECURSIVE RegisterAll(_, _, _, _)
RegisterAll(sums, qpv, tpv, match11) ==
    IF sums = <<>> THEN <<>>
    ELSE <<SumRegistered(Head(sums), qpv, tpv, match11)>>
         \o RegisterAll(Tail(sums), qpv, tpv, match11)

\* the decay loop over phaseSetPartialSums
RECURSIVE DecayAll(_, _)
DecayAll(sums, d) ==
    IF sums = <<>> THEN <<>> ELSE <<SumDecayed(Head(sums), d)>> \o DecayAll(Tail(sums), d)

\* one iteration of the while loop of phasingCorrectnessInternal
SweepStep(st, q, t, d, qIv, tIv, forward) ==
    LET incr == IF forward THEN 1 ELSE -1
        qpv == q[st.i + 1]
        tpv == t[st.j + 1]
        m == MatchAlleles(qpv, tpv)
        gc(s) == LET r == CollectOutOfScope(s.sums, 1, s.outOfScopeSum, s.i, s.j, qIv, tIv)
                 IN  [s EXCEPT !.sums = r.sums, !.outOfScopeSum = r.outOfScopeSum]
    IN
    IF (qpv.refPos < tpv.refPos /\ forward) \/ (qpv.refPos > tpv.refPos /\ ~forward)
    THEN gc([st EXCEPT !.i = @ + incr])
    ELSE IF (tpv.refPos < qpv.refPos /\ forward) \/ (tpv.refPos > qpv.refPos /\ ~forward)
    THEN gc([st EXCEPT !.j = @ + incr])
    ELSE IF AllelesNotShared(m) \/ DuplicateAlleles(m)
    THEN [st EXCEPT !.i = @ + incr, !.j = @ + incr]   \* continue
    ELSE
      LET found == \E k \in DOMAIN st.sums : CoPhased(st.sums[k], qpv, tpv)
          added == SumContributions(st.sums, qpv, tpv, m.m11) + st.outOfScopeSum
          registered == RegisterAll(st.sums, qpv, tpv, m.m11)
          withNew == IF found THEN registered
                     ELSE Append(registered,
                                 NewPartialSums(qpv.phaseSet, tpv.phaseSet, m.m11))
      IN gc([i |-> st.i + incr,
             j |-> st.j + incr,
             sums |-> DecayAll(withNew, d),
             totalSum |-> st.totalSum + added,
             partitionSum |-> MulDecay(st.partitionSum + One, d),
             partitionTotalSum |-> st.partitionTotalSum + st.partitionSum,
             outOfScopeSum |-> MulDecay(st.outOfScopeSum, d),
             numPhased |-> st.numPhased + 1])

\* returnVal of phasingCorrectnessInternal
SweepReturn(st) == <<st.totalSum, st.partitionTotalSum>>

\* a whole call of phasingCorrectnessInternal
RECURSIVE SweepRun(_, _, _, _, _, _, _)
SweepRun(st, q, t, d, qIv, tIv, forward) ==
    IF SweepRunning(st, q, t)
    THEN SweepRun(SweepStep(st, q, t, d, qIv, tIv, forward), q, t, d, qIv, tIv, forward)
    ELSE st

\* locals of switchCorrectness at loop entry; "NULL" is the null pointer
SwitchInit ==
    [i |-> 0, j |-> 0, prevQueryPhaseSet |-> "NULL", prevTruthPhaseSet |-> "NULL",
     prevInPhase |-> FALSE, numPhasedVariants |-> 0, numCorrectlyPhasedPairs |-> 0]

SwitchRunning(st, q, t) == st.i < Len(q) /\ st.j < Len(t)

\* a variant pair rule that demands equal polarity across phase sets too
SwitchPairCorrectMutant(st, qpv, tpv, match11) ==
    /\ st.prevQueryPhaseSet # "NULL" /\ st.prevTruthPhaseSet # "NULL"
    /\ match11 = st.prevInPhase

\* does the current variant form a correctly phased pair with the previous one
SwitchPairCorrect(st, qpv, tpv, match11) ==
    /\ st.prevQueryPhaseSet # "NULL" /\ st.prevTruthPhaseSet # "NULL"
    /\ IF qpv.phaseSet = st.prevQueryPhaseSet /\ tpv.phaseSet = st.prevTruthPhaseSet
       THEN match11 = st.prevInPhase
       ELSE TRUE

\* one iteration of the for loop of switchCorrectness
SwitchStep(st, q, t) ==
    LET qpv == q[st.i + 1]
        tpv == t[st.j + 1]
        m == MatchAlleles(qpv, tpv)
    IN
    IF qpv.refPos < tpv.refPos THEN [st EXCEPT !.i = @ + 1]
    ELSE IF tpv.refPos < qpv.refPos THEN [st EXCEPT !.j = @ + 1]
    ELSE IF AllelesNotShared(m) \/ DuplicateAlleles(m)
    THEN [st EXCEPT !.i = @ + 1, !.j = @ + 1]   \* continue
    ELSE [i |-> st.i + 1,
          j |-> st.j + 1,
          prevQueryPhaseSet |-> qpv.phaseSet,
          prevTruthPhaseSet |-> tpv.phaseSet,
          prevInPhase |-> m.m11,
          numPhasedVariants |-> st.numPhasedVariants + 1,
          numCorrectlyPhasedPairs |->
              st.numCorrectlyPhasedPairs + B2I(SwitchPairCorrect(st, qpv, tpv, m.m11))]

\* the quotient returned by switchCorrectness, in fixed point
SwitchReturn(st) ==
    [num |-> st.numCorrectlyPhasedPairs * One, den |-> (st.numPhasedVariants - 1) * One]

RECURSIVE SwitchRun(_, _, _)
SwitchRun(st, q, t) ==
    IF SwitchRunning(st, q, t) THEN SwitchRun(SwitchStep(st, q, t), q, t) ELSE st

\* the quotient of phasingCorrectness from the two returnVal arrays
Quotient(fwd, rev) == [num |-> fwd[1] + rev[1], den |-> fwd[2] + rev[2]]

\* the whole of phasingCorrectness for a decay in [0, 1]: value and *lengthOut
PhasingCorrectnessOf(q, t, d) ==
    IF d = 0
    THEN LET st == SwitchRun(SwitchInit, q, t)
         IN  [value |-> SwitchReturn(st), lengthOut |-> st.numPhasedVariants]
    ELSE LET qIv == PhaseSetIntervals(q)
             tIv == PhaseSetIntervals(t)
             f == SweepRun(SweepInit(q, t, TRUE), q, t, d, qIv, tIv, TRUE)
             r == SweepRun(SweepInit(q, t, FALSE), q, t, d, qIv, tIv, FALSE)
         IN  [value |-> Quotient(SweepReturn(f), SweepReturn(r)),
              lengthOut |-> r.numPhased]

(* ---- the inputs of the model ---- *)
\* what the two call sets hold at one position
SiteKinds == {"same", "flip", "queryOnly", "truthOnly", "dupQuery", "otherAllele", "dupBoth"}
RegularKinds == {"same", "flip"}
QueryPhaseSetNames == {"A", "B"}
\* the truth's phase sets mirror the query's, or the truth is one phase set
TruthModes == {"mirror", "single"}

\* layouts of n positions with at most one irregular site
SiteLayouts(n) ==
    {f \in [1..n -> SiteKinds \X QueryPhaseSetNames] :
        Cardinality({p \in 1..n : f[p][1] \notin RegularKinds}) <= 1}

QueryVariantAt(p, kind, ps) ==
    CASE kind = "flip" -> PhasedVariant(p, <<"A", "C">>, 1, 0, ps)
      [] kind \in {"dupQuery", "dupBoth"} -> PhasedVariant(p, <<"A", "C", "A">>, 0, 2, ps)
      [] kind = "otherAllele" -> PhasedVariant(p, <<"A", "G">>, 0, 1, ps)
      [] OTHER -> PhasedVariant(p, <<"A", "C">>, 0, 1, ps)

TruthVariantAt(p, kind, ps) ==
    IF kind = "dupBoth" THEN PhasedVariant(p, <<"A", "C", "A">>, 0, 2, ps)
    ELSE PhasedVariant(p, <<"A", "C">>, 0, 1, ps)

RECURSIVE QueryList(_, _, _)
QueryList(f, p, n) ==
    IF p > n THEN <<>>
    ELSE (IF f[p][1] = "truthOnly" THEN <<>>
          ELSE <<QueryVariantAt(p, f[p][1], f[p][2])>>) \o QueryList(f, p + 1, n)

RECURSIVE TruthList(_, _, _, _)
TruthList(f, mode, p, n) ==
    IF p > n THEN <<>>
    ELSE (IF f[p][1] = "queryOnly" THEN <<>>
          ELSE <<TruthVariantAt(p, f[p][1], IF mode = "mirror" THEN f[p][2] ELSE "A")>>)
         \o TruthList(f, mode, p + 1, n)

\* the list with its last two variants exchanged
ExchangeLast(pvs) ==
    IF Len(pvs) < 2 THEN pvs
    ELSE SubSeq(pvs, 1, Len(pvs) - 2) \o <<pvs[Len(pvs)], pvs[Len(pvs) - 1]>>

\* which of the two lists are out of position order
Orders == {"sorted", "query", "truth", "both"}

NoSweep == SweepInit(<<>>, <<>>, TRUE)

\* the lists are in position order, or they are lists of regular sites
\* with the last two variants of one or of both exchanged
LpcInit ==
    /\ \E n \in 0..MaxVariants : \E f \in SiteLayouts(n) : \E mode \in TruthModes :
       \E order \in Orders :
          /\ order # "sorted" =>
                /\ n >= 2 /\ mode = "mirror"
                /\ \A p \in 1..n : f[p][1] \in RegularKinds
          /\ queryPhasedVariants = IF order \in {"query", "both"}
                                   THEN ExchangeLast(QueryList(f, 1, n))
                                   ELSE QueryList(f, 1, n)
          /\ truthPhasedVariants = IF order \in {"truth", "both"}
                                   THEN ExchangeLast(TruthList(f, mode, 1, n))
                                   ELSE TruthList(f, mode, 1, n)
    /\ decay \in Decays \cup BadDecays
    /\ lpcPc = "entry"
    /\ sweep = NoSweep
    /\ sw = SwitchInit
    /\ forwardSums = <<0, 0>>
    /\ reverseSums = <<0, 0>>
    /\ lengthOut = -1
    /\ correctness = [num |-> 0, den |-> 0]

\* the test of the decay that ends in st_errAbort
DecayOutOfRangeMutant(d) == d < 0

DecayOutOfRange(d) == d < 0 \/ d > One

\* the calls of st_errAbort that phasingCorrectness reaches before its first
\* loop: for the decay, and inside phaseSetIntervals for either list
AbortsAtEntry ==
    \/ DecayOutOfRange(decay)
    \/ decay # 0 /\ (OutOfOrder(queryPhasedVariants) \/ OutOfOrder(truthPhasedVariants))

PhasingCorrectnessAbort ==
    /\ lpcPc = "entry"
    /\ AbortsAtEntry
    /\ lpcPc' = "aborted"
    /\ UNCHANGED <<queryPhasedVariants, truthPhasedVariants, decay, sweep, sw, forwardSums,
                   reverseSums, lengthOut, correctness>>

\* phasingCorrectness up to the first loop: the decay == 0.0 special case or
\* the interval tables and the start of the forward sweep
PhasingCorrectnessEnter ==
    /\ lpcPc = "entry"
    /\ ~AbortsAtEntry
    /\ IF decay = 0
       THEN lpcPc' = "switch" /\ sw' = SwitchInit /\ UNCHANGED sweep
       ELSE /\ lpcPc' = "forward"
            /\ sweep' = SweepInit(queryPhasedVariants, truthPhasedVariants, TRUE)
            /\ UNCHANGED sw
    /\ UNCHANGED <<queryPhasedVariants, truthPhasedVariants, decay, forwardSums,
                   reverseSums, lengthOut, correctness>>

SwitchCorrectnessStep ==
    /\ lpcPc = "switch"
    /\ SwitchRunning(sw, queryPhasedVariants, truthPhasedVariants)
    /\ sw' = SwitchStep(sw, queryPhasedVariants, truthPhasedVariants)
    /\ UNCHANGED <<queryPhasedVariants, truthPhasedVariants, decay, lpcPc, sweep,
                   forwardSums, reverseSums, lengthOut, correctness>>

SwitchCorrectnessReturn ==
    /\ lpcPc = "switch"
    /\ ~SwitchRunning(sw, queryPhasedVariants, truthPhasedVariants)
    /\ lengthOut' = sw.numPhasedVariants
    /\ correctness' = SwitchReturn(sw)
    /\ lpcPc' = "done"
    /\ UNCHANGED <<queryPhasedVariants, truthPhasedVariants, decay, sweep, sw,
                   forwardSums, reverseSums>>

ForwardSweepStep ==
    /\ lpcPc = "forward"
    /\ SweepRunning(sweep, queryPhasedVariants, truthPhasedVariants)
    /\ sweep' = SweepStep(sweep, queryPhasedVariants, truthPhasedVariants, decay,
                          PhaseSetIntervals(queryPhasedVariants),
                          PhaseSetIntervals(truthPhasedVariants), TRUE)
    /\ UNCHANGED <<queryPhasedVariants, truthPhasedVariants, decay, lpcPc, sw,
                   forwardSums, reverseSums, lengthOut, correctness>>

ForwardSweepReturn ==
    /\ lpcPc = "forward"
    /\ ~SweepRunning(sweep, queryPhasedVariants, truthPhasedVariants)
    /\ forwardSums' = SweepReturn(sweep)
    /\ lengthOut' = sweep.numPhased
    /\ sweep' = SweepInit(queryPhasedVariants, truthPhasedVariants, FALSE)
    /\ lpcPc' = "backward"
    /\ UNCHANGED <<queryPhasedVariants, truthPhasedVariants, decay, sw,
                   reverseSums, correctness>>

BackwardSweepStep ==
    /\ lpcPc = "backward"
    /\ SweepRunning(sweep, queryPhasedVariants, truthPhasedVariants)
    /\ sweep' = SweepStep(sweep, queryPhasedVariants, truthPhasedVariants, decay,
                          PhaseSetIntervals(queryPhasedVariants),
                          PhaseSetIntervals(truthPhasedVariants), FALSE)
    /\ UNCHANGED <<queryPhasedVariants, truthPhasedVariants, decay, lpcPc, sw,
                   forwardSums, reverseSums, lengthOut, correctness>>

\* the end of the backward sweep and the quotient of phasingCorrectness
BackwardSweepReturn ==
    /\ lpcPc = "backward"
    /\ ~SweepRunning(sweep, queryPhasedVariants, truthPhasedVariants)
    /\ reverseSums' = SweepReturn(sweep)
    /\ lengthOut' = sweep.numPhased
    /\ correctness' = Quotient(forwardSums, SweepReturn(sweep))
    /\ lpcPc' = "done"
    /\ UNCHANGED <<queryPhasedVariants, truthPhasedVariants, decay, sweep, sw,
                   forwardSums>>
(***************************************************************************)
(* Bubble graphs: src/impl/bubbleGraph.c                                   *)
(*                                                                         *)
(* An expanded string is a sequence of one-character strings.  An          *)
(* RleString is a sequence of runs [c, n]: with run-length encoding on,    *)
(* adjacent runs hold different characters; with it off every run has      *)
(* n = 1.  Node k >= 1 of the POA is aligned to position k - 1 of the      *)
(* reference string; node 0 is the prefix "N".                             *)
(***************************************************************************)
\* number of nodes of the POA, the prefix node included
MaxNodes == 7
\* number of reads aligned to the POA
MaxReads == 2
\* number of 50% raises of the candidate weight that the model tells apart
MaxRetries == 3
\* number of entries of a VCF handed to the VCF-driven builders
MaxVcfEntries == 2

\* poa->alphabet: convertSymbolToChar(i) is Alphabet[i + 1]
Alphabet == <<"A", "C", "G", "T">>

RECURSIVE expandChar(_, _)
expandChar(c, n) == IF n = 0 THEN <<>> ELSE <<c>> \o expandChar(c, n - 1)

\* the RLE primitives, which the core takes from the RLE library
RECURSIVE rleString_construct(_)
rleString_construct(s) ==
    IF s = <<>> THEN <<>>
    ELSE LET r == rleString_construct(SubSeq(s, 1, Len(s) - 1))
             last == s[Len(s)]
         IN  IF r # <<>> /\ r[Len(r)].c = last
             THEN SubSeq(r, 1, Len(r) - 1) \o <<[c |-> last, n |-> r[Len(r)].n + 1]>>
             ELSE r \o <<[c |-> last, n |-> 1]>>

RECURSIVE rleString_construct_no_rle(_)
rleString_construct_no_rle(s) ==
    IF s = <<>> THEN <<>>
    ELSE <<[c |-> Head(s), n |-> 1]>> \o rleString_construct_no_rle(Tail(s))

RECURSIVE rleString_expand(_)
rleString_expand(r) ==
    IF r = <<>> THEN <<>>
    ELSE expandChar(Head(r).c, Head(r).n) \o rleString_expand(Tail(r))

rleString_copySubstring(r, start, length) == SubSeq(r, start + 1, start + length)

rleString_eq(a, b) == a = b

\* rleString_construct or rleString_construct_no_rle by useRunLengthEncoding
ConstructByMode(s, useRunLengthEncoding) ==
    IF useRunLengthEncoding THEN rleString_construct(s)
    ELSE rleString_construct_no_rle(s)

(* ---- the inputs of the builders: a POA and the reads aligned to it ---- *)
\* weights of an edit; the candidate weight of every node is CandidateWeights
EditWeights == {3, 5}
CandidateWeights == {2}
\* what the reads support at a node besides the reference base: nothing, a
\* substitution by T, an insert of one base after the node, a deletion of
\* the next node or a deletion of the next two nodes, each with its weight
NodeEdits == {<<"plain", 0>>} \cup ({"sub", "ins", "del"} \X EditWeights) \cup {<<"del2", 5>>}
\* the reference strings of the model, by name
RefPatterns == {"ACG", "AAA", "AACG"}

RefBaseAt(pattern, k) ==
    IF pattern = "AAA" THEN "A" ELSE Alphabet[((k - 1) % 3) + 1]

RefCountAt(pattern, k) ==
    IF pattern = "AACG" /\ (k - 1) % 3 = 0 THEN 2 ELSE 1

\* the base of an insert: one more A in the homopolymer, otherwise T
InsertBaseOf(pattern) == IF pattern = "AAA" THEN "A" ELSE "T"

\* poa->maxRepeatCount: repeat counts of a node are below it
MaxRepeatCountOf(pattern) == IF pattern = "AACG" THEN 3 ELSE 2

\* a PoaNode: base weights by symbol, repeat count weights by count,
\* inserts and deletes that start after the node
PoaNode(base, count, edit, inserted, maxRepeatCount) ==
    [base |-> base,
     repeatCount |-> count,
     baseWeights |-> [x \in 1..Len(Alphabet) |->
                         IF edit[1] = "sub" /\ Alphabet[x] = "T" THEN edit[2] ELSE 0],
     repeatCountWeights |-> [x \in 1..maxRepeatCount |-> 0],
     inserts |-> IF edit[1] = "ins"
                 THEN <<[insert |-> <<[c |-> inserted, n |-> 1]>>, weight |-> edit[2]]>>
                 ELSE <<>>,
     deletes |-> IF edit[1] = "del" THEN <<[length |-> 1, weight |-> edit[2]]>>
                 ELSE IF edit[1] = "del2" THEN <<[length |-> 2, weight |-> edit[2]]>>
                 ELSE <<>>]

\* the layouts of n nodes: an edit for each node but the prefix, with at
\* most two edited nodes; a deletion ends inside the POA
PoaLayouts(n) ==
    {f \in [1..(n - 1) -> NodeEdits] :
        /\ Cardinality({k \in 1..(n - 1) : f[k][1] # "plain"}) <= 2
        /\ \A k \in 1..(n - 1) : f[k][1] = "del" => k + 1 <= n - 1
        /\ \A k \in 1..(n - 1) : f[k][1] = "del2" => k + 2 <= n - 1}

RECURSIVE PoaNodes(_, _, _, _)
PoaNodes(f, pattern, k, n) ==
    IF k > n - 1 THEN <<>>
    ELSE <<PoaNode(RefBaseAt(pattern, k), RefCountAt(pattern, k), f[k],
                   InsertBaseOf(pattern), MaxRepeatCountOf(pattern))>>
         \o PoaNodes(f, pattern, k + 1, n)

RECURSIVE RefStringOf(_, _, _)
RefStringOf(pattern, k, n) ==
    IF k > n - 1 THEN <<>>
    ELSE <<[c |-> RefBaseAt(pattern, k), n |-> RefCountAt(pattern, k)]>>
         \o RefStringOf(pattern, k + 1, n)

\* the POA: nodes[1] is the prefix node, nodes[k + 1] is node k
PoaOf(f, pattern, n, cw) ==
    [nodes |-> <<PoaNode("N", 1, <<"plain", 0>>, InsertBaseOf(pattern),
                         MaxRepeatCountOf(pattern))>>
               \o PoaNodes(f, pattern, 1, n),
     refString |-> RefStringOf(pattern, 1, n),
     maxRepeatCount |-> MaxRepeatCountOf(pattern),
     candidateWeight |-> cw]

\* the expanded string of a read and, for each node but the prefix, the
\* offset in it of the base aligned to the node (-1: none); a read of
\* haplotype "alt" carries every edit of the layout, one of "ref" none
RECURSIVE ReadWalk(_, _, _, _, _, _, _, _)
ReadWalk(f, pattern, hap, k, n, s, offsets, deleted) ==
    IF k > n - 1 THEN [s |-> s, offsets |-> offsets]
    ELSE IF deleted > 0
         THEN ReadWalk(f, pattern, hap, k + 1, n, s, Append(offsets, -1), deleted - 1)
         ELSE LET kind == IF hap = "alt" THEN f[k][1] ELSE "plain"
                  base == IF kind = "sub" THEN "T" ELSE RefBaseAt(pattern, k)
                  bases == expandChar(base, RefCountAt(pattern, k))
                           \o (IF kind = "ins" THEN <<InsertBaseOf(pattern)>> ELSE <<>>)
              IN  ReadWalk(f, pattern, hap, k + 1, n, s \o bases,
                           Append(offsets, Len(s)),
                           IF kind = "del" THEN 1 ELSE IF kind = "del2" THEN 2 ELSE 0)

\* the index of the run of rleString_construct(s) that holds position p of s
RunIndexOf(s, p) ==
    Cardinality({x \in 2..(p + 1) : s[x] # s[x - 1]})

RECURSIVE RunOffsets(_, _)
RunOffsets(s, offsets) ==
    IF offsets = <<>> THEN <<>>
    ELSE <<IF Head(offsets) = -1 THEN -1 ELSE RunIndexOf(s, Head(offsets))>>
         \o RunOffsets(s, Tail(offsets))

\* the base quality of the reads of a haplotype
BaseQualityOf(hap) == IF hap = "ref" THEN 20 ELSE 15

\* a BamChunkRead with its alignment to the POA and a quality for each
\* position of rleRead
BamChunkRead(f, pattern, hap, n, useRunLengthEncoding) ==
    LET w == ReadWalk(f, pattern, hap, 1, n, <<>>, <<>>, 0)
    IN  [rleRead |-> ConstructByMode(w.s, useRunLengthEncoding),
         qualities |-> expandChar(BaseQualityOf(hap),
                                  Len(ConstructByMode(w.s, useRunLengthEncoding))),
         offsets |-> IF useRunLengthEncoding THEN RunOffsets(w.s, w.offsets)
                     ELSE w.offsets,
         forwardStrand |-> hap = "ref"]

RECURSIVE BamChunkReads(_, _, _, _, _)
BamChunkReads(f, pattern, haps, n, useRunLengthEncoding) ==
    IF haps = <<>> THEN <<>>
    ELSE <<BamChunkRead(f, pattern, Head(haps), n, useRunLengthEncoding)>>
         \o BamChunkReads(f, pattern, Tail(haps), n, useRunLengthEncoding)

\* the sequences of at most m haplotypes
RECURSIVE HaplotypeSeqs(_)
HaplotypeSeqs(m) ==
    IF m = 0 THEN {<<>>}
    ELSE HaplotypeSeqs(m - 1)
         \cup {Append(h, x) : h \in {y \in HaplotypeSeqs(m - 1) : Len(y) = m - 1},
                              x \in {"ref", "alt"}}

\* node->observations after sortBaseObservations: one observation for each
\* read aligned to the node, in ascending read number
RECURSIVE Observations(_, _, _)
Observations(reads, node, readNo) ==
    IF readNo >= Len(reads) THEN <<>>
    ELSE (IF node >= 1 /\ reads[readNo + 1].offsets[node] # -1
          THEN <<[readNo |-> readNo, offset |-> reads[readNo + 1].offsets[node]]>>
          ELSE <<>>) \o Observations(reads, node, readNo + 1)

\* a comparison that ignores the weight adjustment
ExceedsMutant(weight, candidateWeight, e) ==
    weight > candidateWeight

(* ---- candidate variants of a node ---- *)
\* weight > candidateWeight * weightAdjustment, the adjustment being 1.5^e
Exceeds(weight, candidateWeight, e) ==
    weight * Pow(2, e) > candidateWeight * Pow(3, e)

\* the bases that successive calls of getNextCandidateBase return
RECURSIVE CandidateBases(_, _, _, _)
CandidateBases(node, x, candidateWeight, e) ==
    IF x > Len(Alphabet) THEN <<>>
    ELSE (IF Exceeds(node.baseWeights[x], candidateWeight, e) \/ node.base = Alphabet[x]
          THEN <<Alphabet[x]>> ELSE <<>>)
         \o CandidateBases(node, x + 1, candidateWeight, e)

\* the repeat counts that successive calls of getNextCandidateRepeatCount
\* return, the iterator starting at count
RECURSIVE CandidateRepeatCounts(_, _, _, _, _)
CandidateRepeatCounts(node, count, maxRepeatCount, candidateWeight, e) ==
    IF count >= maxRepeatCount THEN <<>>
    ELSE (IF Exceeds(node.repeatCountWeights[count + 1], 2 * candidateWeight, e)
             \/ node.repeatCount = count
          THEN <<count>> ELSE <<>>)
         \o CandidateRepeatCounts(node, count + 1, maxRepeatCount, candidateWeight, e)

\* the inserts that successive calls of getNextCandidateInsert return
RECURSIVE CandidateInserts(_, _, _)
CandidateInserts(inserts, candidateWeight, e) ==
    IF inserts = <<>> THEN <<>>
    ELSE (IF Exceeds(Head(inserts).weight, candidateWeight, e)
          THEN <<Head(inserts).insert>> ELSE <<>>)
         \o CandidateInserts(Tail(inserts), candidateWeight, e)

\* the lengths that successive calls of getNextCandidateDelete return
RECURSIVE CandidateDeletes(_, _, _)
CandidateDeletes(deletes, candidateWeight, e) ==
    IF deletes = <<>> THEN <<>>
    ELSE (IF Exceeds(Head(deletes).weight, candidateWeight, e)
          THEN <<Head(deletes).length>> ELSE <<>>)
         \o CandidateDeletes(Tail(deletes), candidateWeight, e)

hasCandidateSubstitution(node, candidateWeight) ==
    \E b \in Range(CandidateBases(node, 1, candidateWeight, 0)) : b # node.base

hasCandidateRepeatCountChange(node, maxRepeatCount, candidateWeight) ==
    \E c \in Range(CandidateRepeatCounts(node, 0, maxRepeatCount, candidateWeight, 0)) :
        c # node.repeatCount

hasCandidateInsert(node, candidateWeight) ==
    CandidateInserts(node.inserts, candidateWeight, 0) # <<>>

\* the longest candidate deletion, as the bool the function is declared
\* to return: 1 for any positive length
maxCandidateDeleteLength(node, candidateWeight) ==
    LET lengths == Range(CandidateDeletes(node.deletes, candidateWeight, 0))
        maxDeleteLength == IF lengths = {} THEN 0
                           ELSE CHOOSE l \in lengths : \A m \in lengths : m <= l
    IN  IF maxDeleteLength # 0 THEN 1 ELSE 0

\* candidateWeights[i]: the POA is shorter than the averaging window, so
\* every node gets the average coverage times candidateVariantWeight
getCandidateWeights(poa) == [x \in 1..Len(poa.nodes) |-> poa.candidateWeight]

\* bool arrays over the nodes: entry i + 1 is for node i
getCandidateVariantOverlapPositions(poa, candidateWeights) ==
    LET marks(i) ==
            LET node == poa.nodes[i + 1]
                j == maxCandidateDeleteLength(node, candidateWeights[i + 1])
            IN  (IF \/ hasCandidateSubstitution(node, candidateWeights[i + 1])
                    \/ hasCandidateRepeatCountChange(node, poa.maxRepeatCount,
                                                     candidateWeights[i + 1])
                    \/ hasCandidateInsert(node, candidateWeights[i + 1])
                    \/ j > 0
                 THEN {i} ELSE {})
                \cup {i + x : x \in 1..j}
        marked == UNION {marks(i) : i \in 0..(Len(poa.nodes) - 1)}
    IN  [x \in 1..Len(poa.nodes) |-> (x - 1) \in marked]

\* position j is set when b[i] is set for an i with i - expansion <= j and
\* j < i + expansion
expand(b, length, expansion) ==
    [x \in 1..length |->
        \E i \in 0..(length - 1) :
            b[i + 1] /\ i - expansion <= x - 1 /\ x - 1 < i + expansion]

\* the anchors, with no VCF entries given
getFilteredAnchorPositions(poa, candidateVariantPositions, columnAnchorTrim) ==
    LET expanded == expand(candidateVariantPositions, Len(poa.nodes), columnAnchorTrim)
    IN  [x \in 1..Len(poa.nodes) |-> ~expanded[x]]

(* ---- read substrings ---- *)
\* the sum of qualities[start] .. qualities[start + length - 1]
RECURSIVE SumQualities(_, _, _)
SumQualities(qualities, start, length) ==
    IF length = 0 THEN 0
    ELSE qualities[start + 1] + SumQualities(qualities, start + 1, length - 1)

\* bamChunkRead_getSubstring: qualities = <<>> stands for a read without
\* qualities; the qualities of a read of the model are equal, so that the
\* mean is a whole number
bamChunkRead_getSubstring(qualities, readNo, start, length) ==
    [read |-> readNo, start |-> start, length |-> length,
     qualValue |-> IF qualities # <<>> THEN SumQualities(qualities, start, length) \div length
                   ELSE -1]

bamChunkReadSubstring_getRleString(reads, rs) ==
    rleString_copySubstring(reads[rs.read + 1].rleRead, rs.start, rs.length)

\* stList_sort by readSubstrings_cmpByQual: descending qualValue, equal
\* values left in their order
RECURSIVE SortByQual(_)
SortByQual(rs) ==
    IF rs = <<>> THEN <<>>
    ELSE LET best == CHOOSE x \in DOMAIN rs :
                        /\ \A y \in DOMAIN rs : rs[y].qualValue <= rs[x].qualValue
                        /\ \A y \in 1..(x - 1) : rs[y].qualValue < rs[x].qualValue
         IN  <<rs[best]>> \o SortByQual(SubSeq(rs, 1, best - 1) \o SubSeq(rs, best + 1, Len(rs)))

\* a test that lets a substring without qualities be dropped
EndsFilteringMutant(rs, params) == rs.qualValue >= params.minAvgBaseQuality

\* the test that ends the loop of filterReadSubstrings: the substring is
\* good enough, or its read has no qualities
EndsFiltering(rs, params) ==
    rs.qualValue >= params.minAvgBaseQuality \/ rs.qualValue = -1

\* the loop of filterReadSubstrings on the sorted list
RECURSIVE DropLowQuality(_, _)
DropLowQuality(rs, params) ==
    IF Len(rs) > params.filterReadsWhileHaveAtLeastThisCoverage
       /\ ~EndsFiltering(rs[Len(rs)], params)
    THEN DropLowQuality(SubSeq(rs, 1, Len(rs) - 1), params)
    ELSE rs

filterReadSubstrings(rs, params) == DropLowQuality(SortByQual(rs), params)

\* a skipDupes that skips nothing
skipDupesMutant(obs, readNo) == obs

\* skipDupes: the observations left after those of readNo at the front
RECURSIVE skipDupes(_, _)
skipDupes(obs, readNo) ==
    IF obs # <<>> /\ Head(obs).readNo = readNo THEN skipDupes(Tail(obs), readNo) ELSE obs

\* the merge of the observations of fromNode and toNode by read number
RECURSIVE MergeObservations(_, _, _)
MergeObservations(reads, obsFrom, obsTo) ==
    IF obsFrom = <<>> \/ obsTo = <<>> THEN <<>>
    ELSE IF Head(obsFrom).readNo = Head(obsTo).readNo
         THEN (IF Head(obsTo).offset - Head(obsFrom).offset > 0
               THEN <<bamChunkRead_getSubstring(reads[Head(obsFrom).readNo + 1].qualities,
                                                Head(obsFrom).readNo, Head(obsFrom).offset,
                                                Head(obsTo).offset - Head(obsFrom).offset)>>
               ELSE <<>>)
              \o MergeObservations(reads, skipDupes(Tail(obsFrom), Head(obsFrom).readNo),
                                   skipDupes(Tail(obsTo), Head(obsTo).readNo))
         ELSE IF Head(obsFrom).readNo < Head(obsTo).readNo
              THEN MergeObservations(reads, skipDupes(Tail(obsFrom), Head(obsFrom).readNo), obsTo)
              ELSE MergeObservations(reads, obsFrom, skipDupes(Tail(obsTo), Head(obsTo).readNo))

\* the read prefixes that end at an observation
RECURSIVE ReadPrefixes(_, _)
ReadPrefixes(reads, obs) ==
    IF obs = <<>> THEN <<>>
    ELSE <<bamChunkRead_getSubstring(reads[Head(obs).readNo + 1].qualities,
                                     Head(obs).readNo, 0, Head(obs).offset)>>
         \o ReadPrefixes(reads, skipDupes(Tail(obs), Head(obs).readNo))

\* the read suffixes that start at an observation
RECURSIVE ReadSuffixes(_, _)
ReadSuffixes(reads, obs) ==
    IF obs = <<>> THEN <<>>
    ELSE <<bamChunkRead_getSubstring(reads[Head(obs).readNo + 1].qualities,
               Head(obs).readNo, Head(obs).offset,
               Len(reads[Head(obs).readNo + 1].rleRead) - Head(obs).offset)>>
         \o ReadSuffixes(reads, skipDupes(Tail(obs), Head(obs).readNo))

RECURSIVE WholeReads(_, _)
WholeReads(reads, readNo) ==
    IF readNo >= Len(reads) THEN <<>>
    ELSE <<bamChunkRead_getSubstring(reads[readNo + 1].qualities, readNo, 0,
                                     Len(reads[readNo + 1].rleRead))>>
         \o WholeReads(reads, readNo + 1)

getReadSubstrings2(reads, poa, from, to, params, shouldFilter) ==
    LET nodeNo == Len(poa.nodes)
        found == IF from = 0
                 THEN (IF to >= nodeNo THEN WholeReads(reads, 0)
                       ELSE ReadPrefixes(reads, Observations(reads, to, 0)))
                 ELSE IF to >= nodeNo
                      THEN ReadSuffixes(reads, Observations(reads, from, 0))
                      ELSE MergeObservations(reads, Observations(reads, from, 0),
                                             Observations(reads, to, 0))
    IN  IF shouldFilter THEN filterReadSubstrings(found, params) ELSE found

getReadSubstrings(reads, poa, from, to, params) ==
    getReadSubstrings2(reads, poa, from, to, params, TRUE)

(* ---- candidate alleles ---- *)
\* the read substrings as RleStrings
RECURSIVE ReadRleStrings(_, _)
ReadRleStrings(reads, readSubstrings) ==
    IF readSubstrings = <<>> THEN <<>>
    ELSE <<bamChunkReadSubstring_getRleString(reads, Head(readSubstrings))>>
         \o ReadRleStrings(reads, Tail(readSubstrings))

\* one expanded string for each group of groupRleStrings; a group holds
\* equal RleStrings, so its consensus is its member.  The hash iteration
\* order is modelled as the order of first occurrence.
RECURSIVE ExpandDistinct(_, _)
ExpandDistinct(rleStrings, seen) ==
    IF rleStrings = <<>> THEN <<>>
    ELSE IF Head(rleStrings) \in seen THEN ExpandDistinct(Tail(rleStrings), seen)
         ELSE <<rleString_expand(Head(rleStrings))>>
              \o ExpandDistinct(Tail(rleStrings), seen \cup {Head(rleStrings)})

getCandidateAllelesFromReadSubstrings(reads, readSubstrings) ==
    ExpandDistinct(ReadRleStrings(reads, readSubstrings), {})

containsString(strings, s) == \E x \in DOMAIN strings : strings[x] = s

\* "%s%s" of a prefix with every suffix
RECURSIVE PrependAll(_, _)
PrependAll(prefix, suffixes) ==
    IF suffixes = <<>> THEN <<>>
    ELSE <<prefix \o Head(suffixes)>> \o PrependAll(prefix, Tail(suffixes))

\* the insert cases of one base and repeat count
RECURSIVE AddInserts(_, _, _, _)
AddInserts(acc, bases, inserts, suffixes) ==
    IF inserts = <<>> THEN acc
    ELSE AddInserts(acc \o PrependAll(bases \o rleString_expand(Head(inserts)), suffixes),
                    bases, Tail(inserts), suffixes)

\* one deletion applied to every suffix, skipping strings already present
RECURSIVE AddDeletion(_, _, _, _)
AddDeletion(acc, bases, deleteLength, suffixes) ==
    IF suffixes = <<>> THEN acc
    ELSE LET suffixHaplotype == Head(suffixes)
             s == bases \o (IF Len(suffixHaplotype) - deleteLength >= 0
                            THEN SubSeq(suffixHaplotype, deleteLength + 1,
                                        Len(suffixHaplotype))
                            ELSE <<>>)
         IN  AddDeletion(IF containsString(acc, s) THEN acc ELSE Append(acc, s),
                         bases, deleteLength, Tail(suffixes))

\* the delete cases: the loop ends at the first length that is not positive
RECURSIVE AddDeletes(_, _, _, _)
AddDeletes(acc, bases, deletes, suffixes) ==
    IF deletes = <<>> \/ Head(deletes) <= 0 THEN acc
    ELSE AddDeletes(AddDeletion(acc, bases, Head(deletes), suffixes),
                    bases, Tail(deletes), suffixes)

\* the loop over the candidate repeat counts of one base
RECURSIVE ForRepeatCounts(_, _, _, _, _, _)
ForRepeatCounts(acc, base, counts, inserts, deletes, suffixes) ==
    IF counts = <<>> THEN acc
    ELSE LET bases == expandChar(base, Head(counts))
             plain == acc \o PrependAll(bases, suffixes)
             inserted == AddInserts(plain, bases, inserts, suffixes)
         IN  ForRepeatCounts(AddDeletes(inserted, bases, deletes, suffixes),
                             base, Tail(counts), inserts, deletes, suffixes)

\* the loop over the candidate bases of the node
RECURSIVE ForBases(_, _, _, _, _, _)
ForBases(acc, bases, counts, inserts, deletes, suffixes) ==
    IF bases = <<>> THEN acc
    ELSE ForBases(ForRepeatCounts(acc, Head(bases), counts, inserts, deletes, suffixes),
                  Tail(bases), counts, inserts, deletes, suffixes)

\* [isNull, strings]: NULL stands for "too many combinations"
RECURSIVE getCandidateConsensusSubstrings(_, _, _, _, _, _)
getCandidateConsensusSubstrings(poa, from, to, candidateWeights, e, maximumStringNumber) ==
    LET suffixes == IF from + 1 < to
                    THEN getCandidateConsensusSubstrings(poa, from + 1, to, candidateWeights,
                                                         e, maximumStringNumber)
                    ELSE [isNull |-> FALSE, strings |-> << <<>> >>]
    IN  IF suffixes.isNull THEN suffixes
        ELSE LET node == poa.nodes[from + 1]
                 candidateWeight == candidateWeights[from + 1]
                 consensusSubstrings ==
                     ForBases(<<>>,
                              CandidateBases(node, 1, candidateWeight, e),
                              CandidateRepeatCounts(node, 1, poa.maxRepeatCount,
                                                    candidateWeight, e),
                              CandidateInserts(node.inserts, candidateWeight, e),
                              CandidateDeletes(node.deletes, candidateWeight, e),
                              suffixes.strings)
             IN  IF Len(consensusSubstrings) > maximumStringNumber
                 THEN [isNull |-> TRUE, strings |-> <<>>]
                 ELSE [isNull |-> FALSE, strings |-> consensusSubstrings]

(* ---- bubbles ---- *)
\* a loop that takes the read substrings from the front of the list
ReverseMutant(s) == s

RECURSIVE Reverse(_)
Reverse(s) == IF s = <<>> THEN <<>> ELSE Append(Reverse(Tail(s)), Head(s))

RECURSIVE ConstructAlleles(_, _)
ConstructAlleles(alleles, useRunLengthEncoding) ==
    IF alleles = <<>> THEN <<>>
    ELSE <<ConstructByMode(Head(alleles), useRunLengthEncoding)>>
         \o ConstructAlleles(Tail(alleles), useRunLengthEncoding)

\* the offsets vp of the bubble with candidateVariantPositions[pAnchor + vp]
RECURSIVE VariantPositionOffsets(_, _, _, _)
VariantPositionOffsets(candidateVariantPositions, pAnchor, vp, length) ==
    IF vp >= length THEN <<>>
    ELSE (IF candidateVariantPositions[pAnchor + vp + 1] THEN <<vp>> ELSE <<>>)
         \o VariantPositionOffsets(candidateVariantPositions, pAnchor, vp + 1, length)

\* the alleles with the reference allele added if it is not among them
WithReferenceAllele(alleles, expandedExistingRefSubstring) ==
    IF containsString(alleles, expandedExistingRefSubstring) THEN alleles
    ELSE Append(alleles, expandedExistingRefSubstring)

\* a Bubble whose length counts both of its anchors
PoaBubbleMutant(poa, pAnchor, i, alleles, readSubstrings, candidateVariantPositions, useRunLengthEncoding) ==
    [refStart |-> pAnchor + 1,
     bubbleLength |-> i + 1 - pAnchor,
     variantPositionOffsets |->
         VariantPositionOffsets(candidateVariantPositions, pAnchor, 0, i - 1 - pAnchor),
     refAllele |-> rleString_copySubstring(poa.refString, pAnchor, i - 1 - pAnchor),
     readNo |-> Len(readSubstrings),
     reads |-> Reverse(readSubstrings),
     alleleNo |-> Len(alleles),
     alleles |-> ConstructAlleles(alleles, useRunLengthEncoding),
     alleleOffset |-> -1]

\* the Bubble made between the anchors pAnchor and i; alleleOffset is
\* filled in when the graph is built
PoaBubble(poa, pAnchor, i, alleles, readSubstrings, candidateVariantPositions, useRunLengthEncoding) ==
    [refStart |-> pAnchor + 1,
     bubbleLength |-> i - 1 - pAnchor,
     variantPositionOffsets |->
         VariantPositionOffsets(candidateVariantPositions, pAnchor, 0, i - 1 - pAnchor),
     refAllele |-> rleString_copySubstring(poa.refString, pAnchor, i - 1 - pAnchor),
     readNo |-> Len(readSubstrings),
     reads |-> Reverse(readSubstrings),
     alleleNo |-> Len(alleles),
     alleles |-> ConstructAlleles(alleles, useRunLengthEncoding),
     alleleOffset |-> -1]

bubble_getReferenceAlleleIndex(b) ==
    IF \E x \in 1..b.alleleNo : rleString_eq(b.refAllele, b.alleles[x])
    THEN (CHOOSE x \in 1..b.alleleNo :
             /\ rleString_eq(b.refAllele, b.alleles[x])
             /\ \A y \in 1..(x - 1) : ~rleString_eq(b.refAllele, b.alleles[y])) - 1
    ELSE -1

\* a loop that takes every bubble to have two alleles
RECURSIVE FillAlleleOffsetsMutant(_, _)
FillAlleleOffsetsMutant(bubbles, alleleOffset) ==
    IF bubbles = <<>> THEN [bubbles |-> <<>>, totalAlleles |-> alleleOffset]
    ELSE LET rest == FillAlleleOffsetsMutant(Tail(bubbles), alleleOffset + 2)
         IN  [bubbles |-> <<[Head(bubbles) EXCEPT !.alleleOffset = alleleOffset]>>
                          \o rest.bubbles,
              totalAlleles |-> rest.totalAlleles]

\* the loop that fills in the allele offsets: the bubbles with their
\* offsets, and totalAlleles
RECURSIVE FillAlleleOffsets(_, _)
FillAlleleOffsets(bubbles, alleleOffset) ==
    IF bubbles = <<>> THEN [bubbles |-> <<>>, totalAlleles |-> alleleOffset]
    ELSE LET rest == FillAlleleOffsets(Tail(bubbles), alleleOffset + Head(bubbles).alleleNo)
         IN  [bubbles |-> <<[Head(bubbles) EXCEPT !.alleleOffset = alleleOffset]>>
                          \o rest.bubbles,
              totalAlleles |-> rest.totalAlleles]

(* ---- the consensus stitcher: bubbleGraph_getConsensusString ---- *)
\* locals at loop entry; consensusSubstrings is kept joined
StitchInit ==
    [i |-> 0, j |-> 0, k |-> 0, previousBase |-> "-", consensusSubstrings |-> <<>>]

\* the reference prefix before bubble b, if any
StitchPrefix(st, b, refString, useRunLengthEncoding) ==
    IF st.k < b.refStart
    THEN LET refSubString == rleString_copySubstring(refString, st.k, b.refStart - st.k)
             k1 == IF useRunLengthEncoding /\ refSubString[1].c = st.previousBase
                   THEN st.k + 1 ELSE st.k
         IN  [st EXCEPT !.consensusSubstrings = @ \o rleString_expand(refSubString),
                        !.j = IF k1 < b.refStart THEN @ + (b.refStart - k1) ELSE @,
                        !.k = IF k1 < b.refStart THEN b.refStart ELSE k1,
                        !.previousBase = refSubString[Len(refSubString)].c]
    ELSE st

\* an update that forgets that a first run may merge into the run before it
StitchAlleleMutant(st, b, allele, useRunLengthEncoding) ==
    LET squashed == useRunLengthEncoding /\ allele[1].c = st.previousBase
        k1 == IF squashed THEN st.k + 1 ELSE st.k
        end == b.refStart + Len(b.refAllele)
    IN  IF rleString_eq(allele, b.refAllele)
        THEN [st EXCEPT !.consensusSubstrings = @ \o rleString_expand(allele),
                        !.j = IF k1 < end THEN @ + (end - k1) ELSE @,
                        !.k = IF k1 < end THEN end ELSE k1,
                        !.previousBase = allele[Len(allele)].c,
                        !.i = @ + 1]
        ELSE [st EXCEPT !.consensusSubstrings = @ \o rleString_expand(allele),
                        !.j = @ + Len(allele) + 0,
                        !.k = @ + Len(b.refAllele),
                        !.previousBase = allele[Len(allele)].c,
                        !.i = @ + 1]

\* the chosen allele of bubble b and the update of the coordinates
StitchAllele(st, b, allele, useRunLengthEncoding) ==
    LET squashed == useRunLengthEncoding /\ allele[1].c = st.previousBase
        k1 == IF squashed THEN st.k + 1 ELSE st.k
        end == b.refStart + Len(b.refAllele)
    IN  IF rleString_eq(allele, b.refAllele)
        THEN [st EXCEPT !.consensusSubstrings = @ \o rleString_expand(allele),
                        !.j = IF k1 < end THEN @ + (end - k1) ELSE @,
                        !.k = IF k1 < end THEN end ELSE k1,
                        !.previousBase = allele[Len(allele)].c,
                        !.i = @ + 1]
        ELSE [st EXCEPT !.consensusSubstrings = @ \o rleString_expand(allele),
                        !.j = @ + Len(allele) + (IF squashed THEN -1 ELSE 0),
                        !.k = @ + Len(b.refAllele),
                        !.previousBase = allele[Len(allele)].c,
                        !.i = @ + 1]

\* one iteration of the loop over the bubbles
StitchStep(st, graph, path, useRunLengthEncoding) ==
    LET b == graph.bubbles[st.i + 1]
    IN  StitchAllele(StitchPrefix(st, b, graph.refString, useRunLengthEncoding),
                     b, b.alleles[path[st.i + 1] + 1], useRunLengthEncoding)

\* the reference suffix after the last bubble, the new consensus string and
\* whether newConsensusString->length == j
StitchReturn(st, refString, useRunLengthEncoding) ==
    LET hasSuffix == st.k < Len(refString)
        refSubString == rleString_copySubstring(refString, st.k, Len(refString) - st.k)
        k1 == IF hasSuffix /\ useRunLengthEncoding /\ refSubString[1].c = st.previousBase
              THEN st.k + 1 ELSE st.k
        j1 == IF hasSuffix /\ k1 < Len(refString) THEN st.j + (Len(refString) - k1) ELSE st.j
        joined == IF hasSuffix THEN st.consensusSubstrings \o rleString_expand(refSubString)
                  ELSE st.consensusSubstrings
        newConsensusString == ConstructByMode(joined, useRunLengthEncoding)
    IN  [newConsensusString |-> newConsensusString,
         j |-> j1,
         lengthIsJ |-> Len(newConsensusString) = j1]

\* consensus paths: the reference allele of every bubble, or for every
\* bubble its first allele that is not the reference allele
ConsensusPathModes == {"reference", "alternative"}

RECURSIVE ConsensusPathOf(_, _)
ConsensusPathOf(bubbles, mode) ==
    IF bubbles = <<>> THEN <<>>
    ELSE LET b == Head(bubbles)
             ref == bubble_getReferenceAlleleIndex(b)
         IN  <<IF mode = "reference" THEN ref
               ELSE CHOOSE x \in 0..(b.alleleNo - 1) :
                        x # ref /\ \A y \in 0..(x - 1) : y = ref>>
             \o ConsensusPathOf(Tail(bubbles), mode)

(* ---- the inputs of the VCF-driven builders ---- *)
\* a VcfEntry as the VCF-driven builders see it: its allele substrings
\* (the reference allele first), its reference interval, and the read
\* substrings found for it
VcfEntryKinds == {"snp", "multiallelic", "uncovered"}

VcfEntryOf(kind, v) ==
    [alleleSubstrings |-> IF kind = "multiallelic" THEN << <<"A">>, <<"C">>, <<"A", "A">> >>
                          ELSE << <<"A">>, <<"C">> >>,
     refPos |-> 3 * v + 1,
     refAlnStart |-> 3 * v,
     refAlnStopIncl |-> 3 * v + 2,
     readSubstrings |-> IF kind = "uncovered" THEN <<>>
                        ELSE <<bamChunkRead_getSubstring(<<>>, 0, 0, 1),
                               bamChunkRead_getSubstring(<<>>, 1, 0, 1)>>]

RECURSIVE VcfEntriesOf(_, _)
VcfEntriesOf(kinds, v) ==
    IF kinds = <<>> THEN <<>>
    ELSE <<VcfEntryOf(Head(kinds), v)>> \o VcfEntriesOf(Tail(kinds), v + 1)

\* the sequences of at most m entry kinds
RECURSIVE VcfEntryKindSeqs(_)
VcfEntryKindSeqs(m) ==
    IF m = 0 THEN {<<>>}
    ELSE VcfEntryKindSeqs(m - 1)
         \cup {Append(h, x) : h \in {y \in VcfEntryKindSeqs(m - 1) : Len(y) = m - 1},
                              x \in VcfEntryKinds}

\* the Bubble the VCF-driven builders make of a VcfEntry
VcfBubble(vcfEntry, useRunLengthEncoding) ==
    [refStart |-> vcfEntry.refAlnStart,
     bubbleLength |-> vcfEntry.refAlnStopIncl - vcfEntry.refAlnStart,
     variantPositionOffsets |-> <<vcfEntry.refPos>>,
     refAllele |-> ConstructByMode(vcfEntry.alleleSubstrings[1], useRunLengthEncoding),
     readNo |-> Len(vcfEntry.readSubstrings),
     reads |-> Reverse(vcfEntry.readSubstrings),
     alleleNo |-> Len(vcfEntry.alleleSubstrings),
     alleles |-> ConstructAlleles(vcfEntry.alleleSubstrings, useRunLengthEncoding),
     alleleOffset |-> -1]

(* ---- the state of a builder call and of a stitcher call ---- *)
VARIABLES
    builder,        \* which builder runs: "poa", "vcfAllele", "vcfSubstrings"
    params,         \* PolishParams and the phasing flag of the call
    poa,            \* the Poa
    bamChunkReads,  \* the reads
    vcfEntries,     \* the VCF entries of the VCF-driven builders
    bgPc,           \* position in the builder and in the stitcher
    build,          \* the locals of the builder
    bg,             \* the BubbleGraph returned
    stitch,         \* the locals of the stitcher
    consensus       \* what the stitcher returned

bgVars == <<builder, params, poa, bamChunkReads, vcfEntries, bgPc, build, bg,
            stitch, consensus>>

NoPoa == [nodes |-> <<>>, refString |-> <<>>, maxRepeatCount |-> 0, candidateWeight |-> 0]
NoBuild == [i |-> 0, pAnchor |-> 0, e |-> 0, candidateWeights |-> <<>>,
            candidateVariantPositions |-> <<>>, anchors |-> <<>>, bubbles |-> <<>>]
NoGraph == [refString |-> <<>>, bubbleNo |-> 0, bubbles |-> <<>>, totalAlleles |-> 0]
NoStitch == [path |-> <<>>, mode |-> "none", locals |-> StitchInit]
NoConsensus == [newConsensusString |-> <<>>, j |-> 0, lengthIsJ |-> TRUE]

PolishParams(useRunLengthEncoding, phasing, useReadAlleles, useReadAllelesInPhasing, maxConsensusStrings) ==
    [useRunLengthEncoding |-> useRunLengthEncoding,
     phasing |-> phasing,
     useReadAlleles |-> useReadAlleles,
     useReadAllelesInPhasing |-> useReadAllelesInPhasing,
     maxConsensusStrings |-> maxConsensusStrings,
     columnAnchorTrim |-> 1,
     filterReadsWhileHaveAtLeastThisCoverage |-> 1,
     minAvgBaseQuality |-> 10]

UseReadAlleles(p) == IF p.phasing THEN p.useReadAllelesInPhasing ELSE p.useReadAlleles

\* the reference strings with the encoding each is used with
PatternModes == {<<"ACG", FALSE>>, <<"AAA", FALSE>>, <<"AACG", TRUE>>}
\* <<phasing, useReadAlleles, useReadAllelesInPhasing, maxConsensusStrings>>
AlleleModes == {<<FALSE, TRUE, FALSE, 4>>, <<TRUE, TRUE, FALSE, 1>>, <<TRUE, TRUE, FALSE, 2>>, <<TRUE, TRUE, FALSE, 4>>}
\* the read sets: every one when the alleles come from the reads, and one
\* read of each haplotype when they come from the POA
ReadSets(am) ==
    IF (IF am[1] THEN am[3] ELSE am[2]) THEN HaplotypeSeqs(MaxReads)
    ELSE {h \in HaplotypeSeqs(MaxReads) :
             Len(h) = MaxReads /\ h[1] = "ref" /\ \A x \in 2..Len(h) : h[x] = "alt"}

BgIdle ==
    /\ builder = "none"
    /\ params = PolishParams(FALSE, FALSE, FALSE, FALSE, 0)
    /\ poa = NoPoa
    /\ bamChunkReads = <<>>
    /\ vcfEntries = <<>>
    /\ bgPc = "idle"
    /\ build = NoBuild
    /\ bg = NoGraph
    /\ stitch = NoStitch
    /\ consensus = NoConsensus

BgInit ==
    /\ bgPc = "start"
    /\ build = NoBuild
    /\ bg = NoGraph
    /\ stitch = NoStitch
    /\ consensus = NoConsensus
    /\ \/ /\ builder = "poa"
          /\ vcfEntries = <<>>
          /\ \E f \in PoaLayouts(MaxNodes), pm \in PatternModes, am \in AlleleModes,
                cw \in CandidateWeights :
                /\ params = PolishParams(pm[2], am[1], am[2], am[3], am[4])
                /\ poa = PoaOf(f, pm[1], MaxNodes, cw)
                /\ \E haps \in ReadSets(am) :
                      bamChunkReads = BamChunkReads(f, pm[1], haps, MaxNodes, pm[2])
       \/ /\ builder \in {"vcfAllele", "vcfSubstrings"}
          /\ poa = NoPoa
          /\ bamChunkReads = <<>>
          /\ \E useRunLengthEncoding \in BOOLEAN :
                params = PolishParams(useRunLengthEncoding, TRUE, FALSE, FALSE, 4)
          /\ \E kinds \in VcfEntryKindSeqs(MaxVcfEntries) :
                vcfEntries = VcfEntriesOf(kinds, 0)

(* ---- bubbleGraph_constructFromPoaAndVCF ---- *)
\* candidate weights, candidate variant positions and anchors
PoaBuilderStart ==
    /\ bgPc = "start" /\ builder = "poa"
    /\ LET candidateWeights == getCandidateWeights(poa)
           candidateVariantPositions ==
               getCandidateVariantOverlapPositions(poa, candidateWeights)
       IN  build' = [NoBuild EXCEPT
                        !.i = 1,
                        !.candidateWeights = candidateWeights,
                        !.candidateVariantPositions = candidateVariantPositions,
                        !.anchors = getFilteredAnchorPositions(poa, candidateVariantPositions,
                                                               params.columnAnchorTrim)]
    /\ bgPc' = "loop"
    /\ UNCHANGED <<builder, params, poa, bamChunkReads, vcfEntries, bg, stitch, consensus>>

\* a builder that neither adds the reference allele nor drops a bubble of
\* one allele
WithBubbleMutant(alleles, readSubstrings) ==
    IF Len(alleles) > 0
    THEN Append(build.bubbles,
                PoaBubble(poa, build.pAnchor, build.i, alleles, readSubstrings,
                          build.candidateVariantPositions, params.useRunLengthEncoding))
    ELSE build.bubbles

\* the bubbles after the alleles between pAnchor and i are known
WithBubble(alleles, readSubstrings) ==
    LET existingRefSubstring ==
            rleString_copySubstring(poa.refString, build.pAnchor, build.i - 1 - build.pAnchor)
        all == WithReferenceAllele(alleles, rleString_expand(existingRefSubstring))
    IN  IF Len(all) > 1
        THEN Append(build.bubbles,
                    PoaBubble(poa, build.pAnchor, build.i, all, readSubstrings,
                              build.candidateVariantPositions, params.useRunLengthEncoding))
        ELSE build.bubbles

\* one iteration of the loop over the nodes; with the alleles taken from
\* the POA the iteration stops at the do-while loop
PoaBuilderStep ==
    /\ bgPc = "loop" /\ builder = "poa"
    /\ build.i < Len(poa.nodes)
    /\ LET i == build.i
           readSubstrings == getReadSubstrings(bamChunkReads, poa, build.pAnchor + 1, i, params)
       IN  IF ~build.anchors[i + 1]
           THEN /\ build' = [build EXCEPT !.i = i + 1]
                /\ bgPc' = bgPc
           ELSE IF i - build.pAnchor = 1 \/ Len(readSubstrings) = 0
           THEN /\ build' = [build EXCEPT !.i = i + 1, !.pAnchor = i]
                /\ bgPc' = bgPc
           ELSE IF UseReadAlleles(params)
           THEN /\ build' = [build EXCEPT
                                !.i = i + 1, !.pAnchor = i,
                                !.bubbles = WithBubble(
                                    getCandidateAllelesFromReadSubstrings(bamChunkReads,
                                                                          readSubstrings),
                                    readSubstrings)]
                /\ bgPc' = bgPc
           ELSE /\ build' = [build EXCEPT !.e = 0]
                /\ bgPc' = "candidates"
    /\ UNCHANGED <<builder, params, poa, bamChunkReads, vcfEntries, bg, stitch, consensus>>

\* one pass of the do-while loop: weightAdjustment is 1.5^e
CandidateAllelesStep ==
    /\ bgPc = "candidates"
    /\ LET i == build.i
           alleles == getCandidateConsensusSubstrings(poa, build.pAnchor + 1, i,
                                                      build.candidateWeights, build.e,
                                                      params.maxConsensusStrings)
       IN  IF alleles.isNull
           THEN /\ build.e < MaxRetries
                /\ build' = [build EXCEPT !.e = @ + 1]
                /\ bgPc' = bgPc
           ELSE /\ build' = [build EXCEPT
                                !.i = i + 1, !.pAnchor = i, !.e = 0,
                                !.bubbles = WithBubble(
                                    alleles.strings,
                                    getReadSubstrings(bamChunkReads, poa, build.pAnchor + 1,
                                                      i, params))]
                /\ bgPc' = "loop"
    /\ UNCHANGED <<builder, params, poa, bamChunkReads, vcfEntries, bg, stitch, consensus>>

\* the graph of the bubbles made, with the allele offsets filled in
BubbleGraphOf(refString, bubbles) ==
    LET filled == FillAlleleOffsets(bubbles, 0)
    IN  [refString |-> refString,
         bubbleNo |-> Len(bubbles),
         bubbles |-> filled.bubbles,
         totalAlleles |-> filled.totalAlleles]

PoaBuilderReturn ==
    /\ bgPc = "loop" /\ builder = "poa"
    /\ build.i = Len(poa.nodes)
    /\ bg' = BubbleGraphOf(poa.refString, build.bubbles)
    /\ bgPc' = "built"
    /\ UNCHANGED <<builder, params, poa, bamChunkReads, vcfEntries, build, stitch, consensus>>

(* ---- bubbleGraph_partitionFilteredReads on a bubble of the POA builder ---- *)
\* the from and to that bubbleGraph_partitionFilteredReads hands to
\* getReadSubstrings2 for a primary bubble
FilteredReadSubstringsInterval(primaryBubble) ==
    LET refStart == primaryBubble.refStart
    IN  [from |-> refStart, to |-> refStart + primaryBubble.bubbleLength + 1]

\* the substrings of the reads that bubbleGraph_partitionFilteredReads
\* scores against the alleles of a primary bubble
FilteredReadSubstrings(reads, primaryBubble) ==
    LET interval == FilteredReadSubstringsInterval(primaryBubble)
    IN  getReadSubstrings2(reads, poa, interval.from, interval.to, params, FALSE)

(* ---- the VCF-driven builders ---- *)
\* one iteration of the loop over the VCF entries, the same in
\* bubbleGraph_constructFromPoaAndVCFOnlyVCFAllele and in
\* bubbleGraph_constructFromVCFAndBamChunkReadVcfEntrySubstrings
VcfBuilderStart ==
    /\ bgPc = "start" /\ builder \in {"vcfAllele", "vcfSubstrings"}
    /\ build' = NoBuild
    /\ bgPc' = "loop"
    /\ UNCHANGED <<builder, params, poa, bamChunkReads, vcfEntries, bg, stitch, consensus>>

VcfBuilderStep ==
    /\ bgPc = "loop" /\ builder \in {"vcfAllele", "vcfSubstrings"}
    /\ build.i < Len(vcfEntries)
    /\ LET vcfEntry == vcfEntries[build.i + 1]
       IN  build' = [build EXCEPT
                        !.i = @ + 1,
                        !.bubbles = IF Len(vcfEntry.readSubstrings) = 0 THEN @
                                    ELSE Append(@, VcfBubble(vcfEntry,
                                                             params.useRunLengthEncoding))]
    /\ UNCHANGED <<builder, params, poa, bamChunkReads, vcfEntries, bgPc, bg, stitch,
                   consensus>>

VcfAlleleBuilderReturn ==
    /\ bgPc = "loop" /\ builder = "vcfAllele"
    /\ build.i = Len(vcfEntries)
    /\ bg' = BubbleGraphOf(poa.refString, build.bubbles)
    /\ bgPc' = "built"
    /\ UNCHANGED <<builder, params, poa, bamChunkReads, vcfEntries, build, stitch, consensus>>

VcfSubstringsBuilderReturn ==
    /\ bgPc = "loop" /\ builder = "vcfSubstrings"
    /\ build.i = Len(vcfEntries)
    /\ bg' = BubbleGraphOf(<<>>, build.bubbles)
    /\ bgPc' = "built"
    /\ UNCHANGED <<builder, params, poa, bamChunkReads, vcfEntries, build, stitch, consensus>>

(* ---- bubbleGraph_getConsensusString on the graph of the POA builder ---- *)
StitcherEnter ==
    /\ bgPc = "built" /\ builder = "poa"
    /\ \E mode \in ConsensusPathModes :
          stitch' = [path |-> ConsensusPathOf(bg.bubbles, mode), mode |-> mode,
                     locals |-> StitchInit]
    /\ bgPc' = "stitch"
    /\ UNCHANGED <<builder, params, poa, bamChunkReads, vcfEntries, build, bg, consensus>>

StitcherStep ==
    /\ bgPc = "stitch"
    /\ stitch.locals.i < bg.bubbleNo
    /\ stitch' = [stitch EXCEPT
                     !.locals = StitchStep(@, bg, stitch.path, params.useRunLengthEncoding)]
    /\ UNCHANGED <<builder, params, poa, bamChunkReads, vcfEntries, bgPc, build, bg,
                   consensus>>

StitcherReturn ==
    /\ bgPc = "stitch"
    /\ stitch.locals.i = bg.bubbleNo
    /\ consensus' = StitchReturn(stitch.locals, bg.refString, params.useRunLengthEncoding)
    /\ bgPc' = "stitched"
    /\ UNCHANGED <<builder, params, poa, bamChunkReads, vcfEntries, build, bg, stitch>>

(***************************************************************************)
(* The phasing driver: bubbleGraph_phaseBubbleGraph, with the refinement   *)
(* of src/impl/genomeFragment.c.  A profile sequence is named by the       *)
(* number of its read.  The likelihoods of the reads and the read          *)
(* partitioning HMMs belong to the phasing library: which reads the        *)
(* coverage filter sets aside, which partition the traceback yields and    *)
(* which haplotype fits a read better are choices of the environment.      *)
(***************************************************************************)
\* number of reads handed to the driver
MaxPhaseReads == 2
\* largest params->phaseParams->roundsOfIterativeRefinement
MaxIterations == 2

VARIABLES
    reads,                      \* the reads: forwardStrand, and whether the
                                \* read is aligned to a bubble of the graph
    roundsOfIterativeRefinement,
    phPc,                       \* position in the driver
    readsToPSeqs,               \* the reads that have a profile sequence
    discardedReadsSet,
    forwardStrandProfileSeqs,
    reverseStrandProfileSeqs,
    gF,                         \* the genome fragment: reads1, reads2, and the
                                \* partitions its predicted genome was filled
                                \* in from, one for each column of the path
    iteration,                  \* of stGenomeFragment_refineGenomeFragment
    it,                         \* discarded reads the iterator has yet to return
    phaseParamObjects,          \* the stRPHmmParameters objects, by the name
                                \* of the pointer: includeAncestorSubProb
    hmmParameters,              \* the object the HMMs were given
    consulted,                  \* includeAncestorSubProb as each step of the
                                \* phasing library read it, -1 before the step
    rpHmm,                      \* the fused HMM: profileSeqs, and the
                                \* seqHeaders of each column of the path
    pathPartitions,             \* p: the partition of each cell of the path
    readLogProbs,               \* for each read of the fragment, its log
                                \* probabilities given haplotypes 1 and 2 in
                                \* the last pass of the refinement
    reads1To2,                  \* of the last pass of the refinement
    reads2To1

phVars == <<reads, roundsOfIterativeRefinement, phPc, readsToPSeqs, discardedReadsSet,
            forwardStrandProfileSeqs, reverseStrandProfileSeqs, gF, iteration, it,
            phaseParamObjects, hmmParameters, consulted,
            rpHmm, pathPartitions, readLogProbs, reads1To2, reads2To1>>

\* the parameters of no object: the copy before it is made
NoParameters == [includeAncestorSubProb |-> -1]

\* no step of the phasing library has read the parameters
NothingConsulted == [getRPHmmsForward |-> -1, getRPHmmsReverse |-> -1, forwardBackward |-> -1, forwardTraceBack |-> -1]

\* stRPHmmParameters_copy
stRPHmmParameters_copy(toCopy) == toCopy

\* the sequences of at most m reads
RECURSIVE ReadLists(_)
ReadLists(m) ==
    IF m = 0 THEN {<<>>}
    ELSE ReadLists(m - 1)
         \cup {Append(h, [forwardStrand |-> s, inBubble |-> b]) :
                  h \in {y \in ReadLists(m - 1) : Len(y) = m - 1},
                  s \in BOOLEAN, b \in BOOLEAN}

\* bubbleGraph_getProfileSeqs: a profile sequence for each read aligned to
\* a bubble
bubbleGraph_getProfileSeqs(rs) == {r \in DOMAIN rs : rs[r].inBubble}

\* the profile sequences of one strand that were not set aside, in the
\* order of the reads
RECURSIVE StrandProfileSeqs(_, _, _, _, _)
StrandProfileSeqs(rs, r, pSeqs, discarded, forward) ==
    IF r > Len(rs) THEN <<>>
    ELSE (IF r \in pSeqs /\ r \notin discarded /\ rs[r].forwardStrand = forward
          THEN <<r>> ELSE <<>>)
         \o StrandProfileSeqs(rs, r + 1, pSeqs, discarded, forward)

NoHmm == [profileSeqs |-> <<>>, columns |-> <<>>]

\* the fused HMM of the profile sequences: its path has two columns, the
\* first with every profile sequence, the second with all but the first
HmmOf(seqs) ==
    [profileSeqs |-> seqs,
     columns |-> IF seqs = <<>> THEN <<>>
                 ELSE <<[depth |-> Len(seqs), seqHeaders |-> seqs],
                        [depth |-> Len(Tail(seqs)), seqHeaders |-> Tail(seqs)]>>]

\* the partition of a cell of the traceback: bit i is set when
\* seqHeaders[i] is on the side of haplotype 1
RECURSIVE PartitionOf(_, _, _)
PartitionOf(seqHeaders, i, reads1) ==
    IF i >= Len(seqHeaders) THEN 0
    ELSE (IF seqHeaders[i + 1] \in reads1 THEN Pow(2, i) ELSE 0)
         + PartitionOf(seqHeaders, i + 1, reads1)

RECURSIVE PathOf(_, _)
PathOf(columns, reads1) ==
    IF columns = <<>> THEN <<>>
    ELSE <<PartitionOf(Head(columns).seqHeaders, 0, reads1)>> \o PathOf(Tail(columns), reads1)

\* the log probabilities of a read given haplotype 1 and haplotype 2:
\* equal, greater for haplotype 2, greater for haplotype 1
LogProbPairs == {<<-1, -1>>, <<-1, 0>>, <<0, -1>>}

\* a test that moves a read on a tie
findReadsThatWereMoreProbablyGeneratedByTheOtherHaplotypeMutant(first, second, profileSeqs, logProbs) ==
    {pSeq \in profileSeqs : logProbs[pSeq][first] <= logProbs[pSeq][second]}

\* the profile sequences with i < j, i the log probability given the
\* haplotype of their side and j that given the other haplotype
findReadsThatWereMoreProbablyGeneratedByTheOtherHaplotype(first, second, profileSeqs, logProbs) ==
    {pSeq \in profileSeqs : logProbs[pSeq][first] < logProbs[pSeq][second]}

\* partition ^ (1 << i)
FlipBit(partition, i) ==
    IF (partition \div Pow(2, i)) % 2 = 1 THEN partition - Pow(2, i)
    ELSE partition + Pow(2, i)

\* a flip that takes each read for the first of its column
RECURSIVE flipReadsBetweenPartitionsMutant(_, _, _, _)
flipReadsBetweenPartitionsMutant(partition, column, flippingReads, i) ==
    IF i >= column.depth THEN partition
    ELSE flipReadsBetweenPartitionsMutant(
             IF column.seqHeaders[i + 1] \in flippingReads THEN FlipBit(partition, 0)
             ELSE partition,
             column, flippingReads, i + 1)

\* flipReadsBetweenPartitions, from bit i on
RECURSIVE flipReadsBetweenPartitions(_, _, _, _)
flipReadsBetweenPartitions(partition, column, flippingReads, i) ==
    IF i >= column.depth THEN partition
    ELSE flipReadsBetweenPartitions(
             IF column.seqHeaders[i + 1] \in flippingReads THEN FlipBit(partition, i)
             ELSE partition,
             column, flippingReads, i + 1)

\* the loop over the path that updates p
RECURSIVE FlipPath(_, _, _, _)
FlipPath(path, columns, r12, r21) ==
    IF path = <<>> THEN <<>>
    ELSE <<flipReadsBetweenPartitions(
               flipReadsBetweenPartitions(Head(path), Head(columns), r12, 0),
               Head(columns), r21, 0)>>
         \o FlipPath(Tail(path), Tail(columns), r12, r21)

\* a round that leaves the switching reads in the set they leave
RefinedPartitionMutant(g, oneToTwo, twoToOne) ==
    [g EXCEPT !.reads1 = @ \cup twoToOne,
              !.reads2 = @ \cup oneToTwo]

\* the partition after one round in which oneToTwo and twoToOne switch
RefinedPartition(g, oneToTwo, twoToOne) ==
    [g EXCEPT !.reads1 = (@ \ oneToTwo) \cup twoToOne,
              !.reads2 = (@ \ twoToOne) \cup oneToTwo]

PhIdle ==
    /\ reads = <<>>
    /\ roundsOfIterativeRefinement = 0
    /\ phPc = "idle"
    /\ readsToPSeqs = {}
    /\ discardedReadsSet = {}
    /\ forwardStrandProfileSeqs = <<>>
    /\ reverseStrandProfileSeqs = <<>>
    /\ gF = [reads1 |-> {}, reads2 |-> {}, partitions |-> <<>>]
    /\ iteration = 0
    /\ it = {}
    /\ phaseParamObjects = [phaseParams |-> NoParameters, phaseParamsCopy |-> NoParameters]
    /\ hmmParameters = "none"
    /\ consulted = NothingConsulted
    /\ rpHmm = NoHmm
    /\ pathPartitions = <<>>
    /\ readLogProbs = <<>>
    /\ reads1To2 = {}
    /\ reads2To1 = {}

PhInit ==
    /\ reads \in ReadLists(MaxPhaseReads)
    /\ roundsOfIterativeRefinement \in 0..MaxIterations
    /\ phPc = "entry"
    /\ readsToPSeqs = {}
    /\ discardedReadsSet = {}
    /\ forwardStrandProfileSeqs = <<>>
    /\ reverseStrandProfileSeqs = <<>>
    /\ gF = [reads1 |-> {}, reads2 |-> {}, partitions |-> <<>>]
    /\ iteration = 0
    /\ it = {}
    /\ \E flag \in {0, 1} :
          phaseParamObjects = [phaseParams |-> [includeAncestorSubProb |-> flag],
                               phaseParamsCopy |-> NoParameters]
    /\ hmmParameters = "none"
    /\ consulted = NothingConsulted
    /\ rpHmm = NoHmm
    /\ pathPartitions = <<>>
    /\ readLogProbs = <<>>
    /\ reads1To2 = {}
    /\ reads2To1 = {}

\* the profile sequences, the coverage filter and the split by strand; the
\* filter keeps at least one profile sequence when there is one
PhaseBubbleGraphEnter ==
    /\ phPc = "entry"
    /\ LET profileSeqs == bubbleGraph_getProfileSeqs(reads)
       IN  /\ readsToPSeqs' = profileSeqs
           /\ \E discarded \in SUBSET profileSeqs :
                 /\ profileSeqs # {} => discarded # profileSeqs
                 /\ discardedReadsSet' = discarded
                 /\ forwardStrandProfileSeqs' =
                        StrandProfileSeqs(reads, 1, profileSeqs, discarded, TRUE)
                 /\ reverseStrandProfileSeqs' =
                        StrandProfileSeqs(reads, 1, profileSeqs, discarded, FALSE)
           /\ phPc' = IF profileSeqs = {} THEN "empty" ELSE "copy"
    /\ UNCHANGED <<reads, roundsOfIterativeRefinement, gF, iteration, it,
                   phaseParamObjects, hmmParameters, consulted,
                   rpHmm, pathPartitions, readLogProbs, reads1To2, reads2To1>>

\* the alignment is empty: stGenomeFragment_constructEmpty with two new sets
PhaseEmptyReturn ==
    /\ phPc = "empty"
    /\ gF' = [reads1 |-> {}, reads2 |-> {}, partitions |-> <<>>]
    /\ phPc' = "returned"
    /\ UNCHANGED <<reads, roundsOfIterativeRefinement, readsToPSeqs, discardedReadsSet,
                   forwardStrandProfileSeqs, reverseStrandProfileSeqs, iteration, it,
                   phaseParamObjects, hmmParameters, consulted,
                   rpHmm, pathPartitions, readLogProbs, reads1To2, reads2To1>>

\* phaseParamsCopy is made and ancestor substitution probabilities are
\* switched off in it
PhaseParamsCopy ==
    /\ phPc = "copy"
    /\ phaseParamObjects' =
           [phaseParamObjects EXCEPT
               !.phaseParamsCopy =
                   [stRPHmmParameters_copy(phaseParamObjects.phaseParams)
                       EXCEPT !.includeAncestorSubProb = 0]]
    /\ phPc' = "forward"
    /\ UNCHANGED <<reads, roundsOfIterativeRefinement, readsToPSeqs, discardedReadsSet,
                   forwardStrandProfileSeqs, reverseStrandProfileSeqs, gF, iteration, it,
                   hmmParameters, consulted,
                   rpHmm, pathPartitions, readLogProbs, reads1To2, reads2To1>>

\* getRPHmms(forwardStrandProfileSeqs, params->phaseParams): the HMMs of
\* the tiling path keep the parameters they are given
GetRPHmmsForward ==
    /\ phPc = "forward"
    /\ hmmParameters' = "phaseParams"
    /\ consulted' = [consulted EXCEPT !.getRPHmmsForward =
                        phaseParamObjects["phaseParams"].includeAncestorSubProb]
    /\ phPc' = "reverse"
    /\ UNCHANGED <<reads, roundsOfIterativeRefinement, readsToPSeqs, discardedReadsSet,
                   forwardStrandProfileSeqs, reverseStrandProfileSeqs, gF, iteration, it,
                   phaseParamObjects,
                   rpHmm, pathPartitions, readLogProbs, reads1To2, reads2To1>>

\* getRPHmms(reverseStrandProfileSeqs, params->phaseParams)
GetRPHmmsReverse ==
    /\ phPc = "reverse"
    /\ hmmParameters' = "phaseParams"
    /\ consulted' = [consulted EXCEPT !.getRPHmmsReverse =
                        phaseParamObjects["phaseParams"].includeAncestorSubProb]
    /\ phPc' = "fuse"
    /\ UNCHANGED <<reads, roundsOfIterativeRefinement, readsToPSeqs, discardedReadsSet,
                   forwardStrandProfileSeqs, reverseStrandProfileSeqs, gF, iteration, it,
                   phaseParamObjects,
                   rpHmm, pathPartitions, readLogProbs, reads1To2, reads2To1>>

\* the tiling paths are merged and fused, ancestor substitution
\* probabilities are switched on in phaseParamsCopy, and
\* stRPHmm_forwardBackward runs with the parameters of the fused HMM
ForwardBackward ==
    /\ phPc = "fuse"
    /\ phaseParamObjects' =
           [phaseParamObjects EXCEPT !.phaseParamsCopy.includeAncestorSubProb = 1]
    /\ consulted' = [consulted EXCEPT !.forwardBackward =
                        phaseParamObjects'[hmmParameters].includeAncestorSubProb]
    /\ phPc' = "hmm"
    /\ UNCHANGED <<reads, roundsOfIterativeRefinement, readsToPSeqs, discardedReadsSet,
                   forwardStrandProfileSeqs, reverseStrandProfileSeqs, gF, iteration, it,
                   hmmParameters,
                   rpHmm, pathPartitions, readLogProbs, reads1To2, reads2To1>>

\* the traceback and the genome fragment of the path: the path puts every
\* profile sequence of the HMM on one side
GenomeFragmentConstruct ==
    /\ phPc = "hmm"
    /\ consulted' = [consulted EXCEPT !.forwardTraceBack =
                        phaseParamObjects[hmmParameters].includeAncestorSubProb]
    /\ LET phased == Range(forwardStrandProfileSeqs) \cup Range(reverseStrandProfileSeqs)
           hmm == HmmOf(forwardStrandProfileSeqs \o reverseStrandProfileSeqs)
       IN  \E reads1 \in SUBSET phased :
              /\ gF' = [reads1 |-> reads1, reads2 |-> phased \ reads1,
                        partitions |-> PathOf(hmm.columns, reads1)]
              /\ rpHmm' = hmm
              /\ pathPartitions' = PathOf(hmm.columns, reads1)
    /\ iteration' = 0
    /\ phPc' = "refine"
    /\ UNCHANGED <<reads, roundsOfIterativeRefinement, readsToPSeqs, discardedReadsSet,
                   forwardStrandProfileSeqs, reverseStrandProfileSeqs, it,
                   phaseParamObjects, hmmParameters,
                   readLogProbs, reads1To2, reads2To1>>

\* one pass of the while loop of stGenomeFragment_refineGenomeFragment
RefineIteration ==
    /\ phPc = "refine"
    /\ iteration < roundsOfIterativeRefinement
    /\ iteration' = iteration + 1
    /\ \E logProbs \in [gF.reads1 \cup gF.reads2 -> LogProbPairs] :
          LET r12 == findReadsThatWereMoreProbablyGeneratedByTheOtherHaplotype(1, 2, gF.reads1, logProbs)
              r21 == findReadsThatWereMoreProbablyGeneratedByTheOtherHaplotype(2, 1, gF.reads2, logProbs)
          IN  /\ readLogProbs' = logProbs
              /\ reads1To2' = r12
              /\ reads2To1' = r21
              /\ IF r12 = {} /\ r21 = {}
                 THEN /\ gF' = gF
                      /\ pathPartitions' = pathPartitions
                      /\ phPc' = "addBack"
                 ELSE /\ pathPartitions' = FlipPath(pathPartitions, rpHmm.columns, r12, r21)
                      /\ gF' = [RefinedPartition(gF, r12, r21)
                                  EXCEPT !.partitions = pathPartitions']
                      /\ phPc' = phPc
    /\ it' = IF phPc' = "addBack" THEN discardedReadsSet ELSE it
    /\ UNCHANGED <<reads, roundsOfIterativeRefinement, readsToPSeqs, discardedReadsSet,
                   forwardStrandProfileSeqs, reverseStrandProfileSeqs,
                   phaseParamObjects, hmmParameters, consulted,
                   rpHmm>>

\* the loop condition fails
RefineReturn ==
    /\ phPc = "refine"
    /\ iteration >= roundsOfIterativeRefinement
    /\ phPc' = "addBack"
    /\ it' = discardedReadsSet
    /\ UNCHANGED <<reads, roundsOfIterativeRefinement, readsToPSeqs, discardedReadsSet,
                   forwardStrandProfileSeqs, reverseStrandProfileSeqs, gF, iteration,
                   phaseParamObjects, hmmParameters, consulted,
                   rpHmm, pathPartitions, readLogProbs, reads1To2, reads2To1>>

\* a read that exceeded the coverage depth goes to the haplotype it fits best;
\* the refinement has returned and its sets of moving reads are destroyed
AddBackDiscarded ==
    /\ phPc = "addBack"
    /\ \E pSeq \in it :
          /\ it' = it \ {pSeq}
          /\ \E iLessThanJ \in BOOLEAN :
                gF' = IF iLessThanJ THEN [gF EXCEPT !.reads2 = @ \cup {pSeq}]
                      ELSE [gF EXCEPT !.reads1 = @ \cup {pSeq}]
    /\ UNCHANGED <<reads, roundsOfIterativeRefinement, phPc, readsToPSeqs, discardedReadsSet,
                   forwardStrandProfileSeqs, reverseStrandProfileSeqs, iteration,
                   phaseParamObjects, hmmParameters, consulted,
                   rpHmm, pathPartitions>>
    /\ readLogProbs' = <<>>
    /\ reads1To2' = {}
    /\ reads2To1' = {}

PhaseBubbleGraphReturn ==
    /\ phPc = "addBack"
    /\ it = {}
    /\ phPc' = "returned"
    /\ UNCHANGED <<reads, roundsOfIterativeRefinement, readsToPSeqs, discardedReadsSet,
                   forwardStrandProfileSeqs, reverseStrandProfileSeqs, gF, iteration, it,
                   phaseParamObjects, hmmParameters, consulted,
                   rpHmm, pathPartitions>>
    /\ readLogProbs' = <<>>
    /\ reads1To2' = {}
    /\ reads2To1' = {}
(***************************************************************************)
(* filterReadSubstrings on lists of read substrings with qualities         *)
(***************************************************************************)
\* number of read substrings handed to filterReadSubstrings
MaxSubstrings == 4

VARIABLES
    flPc,           \* where the call of filterReadSubstrings stands
    flParams,       \* the PolishParams of the call
    flInput,        \* the list as the caller handed it over
    readSubstrings  \* the list the function sorts and pops from

flVars == <<flPc, flParams, flInput, readSubstrings>>

\* average base qualities of a substring: -1 for a read without qualities
QualValues == {-1, 5, 9, 10, 20}
\* params->filterReadsWhileHaveAtLeastThisCoverage
Coverages == 0..3
\* params->minAvgBaseQuality
MinAvgBaseQuality == 10

\* the lists of at most n substrings, substring x being of read x - 1
SubstringLists(n) ==
    UNION {{[x \in 1..m |-> [read |-> x - 1, start |-> 0, length |-> 1,
                              qualValue |-> q[x]]] :
               q \in [1..m -> QualValues]} : m \in 0..n}

\* readSubstrings_cmpByQual never puts b before a
InQualOrder(rs) ==
    \A x \in 1..(Len(rs) - 1) : rs[x].qualValue >= rs[x + 1].qualValue

\* the orders stList_sort may leave the list in: it is not a stable sort
SortedOrders(rs) ==
    {s \in [1..Len(rs) -> Range(rs)] : Range(s) = Range(rs) /\ InQualOrder(s)}

FlIdle ==
    /\ flPc = "idle"
    /\ flParams = [filterReadsWhileHaveAtLeastThisCoverage |-> 0, minAvgBaseQuality |-> 0]
    /\ flInput = <<>>
    /\ readSubstrings = <<>>

FlInit ==
    /\ flPc = "entry"
    /\ \E coverage \in Coverages :
          flParams = [filterReadsWhileHaveAtLeastThisCoverage |-> coverage,
                      minAvgBaseQuality |-> MinAvgBaseQuality]
    /\ flInput \in SubstringLists(MaxSubstrings)
    /\ readSubstrings = flInput

\* stList_sort(readSubstrings, readSubstrings_cmpByQual)
FilterSort ==
    /\ flPc = "entry"
    /\ readSubstrings' \in SortedOrders(readSubstrings)
    /\ flPc' = "loop"
    /\ UNCHANGED <<flParams, flInput>>

\* one pass of the while loop that ends in stList_pop
FilterPop ==
    /\ flPc = "loop"
    /\ Len(readSubstrings) > flParams.filterReadsWhileHaveAtLeastThisCoverage
    /\ ~EndsFiltering(readSubstrings[Len(readSubstrings)], flParams)
    /\ readSubstrings' = SubSeq(readSubstrings, 1, Len(readSubstrings) - 1)
    /\ UNCHANGED <<flPc, flParams, flInput>>

\* the loop condition fails or the break is taken
FilterReturn ==
    /\ flPc = "loop"
    /\ IF Len(readSubstrings) > flParams.filterReadsWhileHaveAtLeastThisCoverage
       THEN EndsFiltering(readSubstrings[Len(readSubstrings)], flParams)
       ELSE TRUE
    /\ flPc' = "done"
    /\ UNCHANGED <<flParams, flInput, readSubstrings>>
(***************************************************************************)
(* bubbleGraph_partitionFilteredReads: the scores of the filtered reads    *)
(*                                                                         *)
(* An allele support is a log likelihood k * ln 2.  A score is held        *)
(* exactly, in units of ln 2, as int - log3 * log2(3): with supports s1    *)
(* and s2 the read gains s1 - logAdd(s1, s2) = -log2(1 + 2^(s2 - s1)),     *)
(* which is -1 when the supports are equal, -log2(3) when s2 = s1 + 1 and  *)
(* 1 - log2(3) when s2 = s1 - 1.                                           *)
(***************************************************************************)
\* number of reads handed to bubbleGraph_partitionFilteredReads
MaxFilteredReads == 2
\* gF->length: number of primary bubbles of the genome fragment
MaxPrimaryBubbles == 3

VARIABLES
    prPc,                   \* where the call stands
    filteredReads,          \* the reads of the bamChunkReads argument
    gFLength,               \* gF->length
    primaryBubbleIdx,       \* index of the loop over the primary bubbles
    totalReadScore_hap1,    \* read -> accumulated score for haplotype 1
    totalReadScore_hap2,    \* read -> accumulated score for haplotype 2
    readIdx,                \* index of the final loop over the reads
    hap1Reads,              \* the set the reads of haplotype 1 are put in
    hap2Reads               \* the set the reads of haplotype 2 are put in

prVars == <<prPc, filteredReads, gFLength, primaryBubbleIdx, totalReadScore_hap1,
            totalReadScore_hap2, readIdx, hap1Reads, hap2Reads>>

\* allele supports of a read substring, as exponents of 2
SupportExponents == {-1, 0}

\* st_calloc(1, sizeof(double))
ZeroScore == [int |-> 0, log3 |-> 0]

\* log2(3) to six decimal places, times 10^6
Log2Of3 == 1584963

\* the value of a score, times 10^6
ScoreValue(x) == x.int * 1000000 - x.log3 * Log2Of3

\* supportA - stMath_logAddExact(supportA, supportB)
SupportShare(supportA, supportB) ==
    IF supportA = supportB THEN [int |-> -1, log3 |-> 0]
    ELSE IF supportB = supportA + 1 THEN [int |-> 0, log3 |-> 1]
    ELSE [int |-> 1, log3 |-> 1]

AddScores(x, y) == [int |-> x.int + y.int, log3 |-> x.log3 + y.log3]

\* a comparison that gives ties to the first score
ScoreGreaterMutant(x, y) == ScoreValue(x) >= ScoreValue(y)

\* *totalSupportA > *totalSupportB
ScoreGreater(x, y) == ScoreValue(x) > ScoreValue(y)

PrIdle ==
    /\ prPc = "idle"
    /\ filteredReads = {}
    /\ gFLength = 0
    /\ primaryBubbleIdx = 0
    /\ totalReadScore_hap1 = <<>>
    /\ totalReadScore_hap2 = <<>>
    /\ readIdx = 0
    /\ hap1Reads = {}
    /\ hap2Reads = {}

\* the state after the two hashes are filled with zero scores
PrInit ==
    /\ prPc = "bubbles"
    /\ \E n \in 0..MaxFilteredReads : filteredReads = 0..(n - 1)
    /\ gFLength \in 0..MaxPrimaryBubbles
    /\ primaryBubbleIdx = 0
    /\ totalReadScore_hap1 = [r \in filteredReads |-> ZeroScore]
    /\ totalReadScore_hap2 = [r \in filteredReads |-> ZeroScore]
    /\ readIdx = 0
    /\ hap1Reads = {}
    /\ hap2Reads = {}

\* a primary bubble whose two haplotype alleles are the same: continue
HomozygousBubbleStep ==
    /\ prPc = "bubbles"
    /\ primaryBubbleIdx < gFLength
    /\ primaryBubbleIdx' = primaryBubbleIdx + 1
    /\ UNCHANGED <<prPc, filteredReads, gFLength, totalReadScore_hap1,
                   totalReadScore_hap2, readIdx, hap1Reads, hap2Reads>>

\* a heterozygous primary bubble: the reads with a substring over it gain
\* their share of the two allele supports
HeterozygousBubbleStep ==
    /\ prPc = "bubbles"
    /\ primaryBubbleIdx < gFLength
    /\ \E spanning \in SUBSET filteredReads :
          \E supportHap1, supportHap2 \in [spanning -> SupportExponents] :
             /\ totalReadScore_hap1' =
                   [r \in filteredReads |->
                       IF r \in spanning
                       THEN AddScores(totalReadScore_hap1[r],
                                      SupportShare(supportHap1[r], supportHap2[r]))
                       ELSE totalReadScore_hap1[r]]
             /\ totalReadScore_hap2' =
                   [r \in filteredReads |->
                       IF r \in spanning
                       THEN AddScores(totalReadScore_hap2[r],
                                      SupportShare(supportHap2[r], supportHap1[r]))
                       ELSE totalReadScore_hap2[r]]
    /\ primaryBubbleIdx' = primaryBubbleIdx + 1
    /\ UNCHANGED <<prPc, filteredReads, gFLength, readIdx, hap1Reads, hap2Reads>>

BubbleLoopReturn ==
    /\ prPc = "bubbles"
    /\ primaryBubbleIdx = gFLength
    /\ prPc' = "reads"
    /\ UNCHANGED <<filteredReads, gFLength, primaryBubbleIdx, totalReadScore_hap1,
                   totalReadScore_hap2, readIdx, hap1Reads, hap2Reads>>

\* one pass of the final loop over the reads
AssignReadStep ==
    /\ prPc = "reads"
    /\ readIdx \in filteredReads
    /\ IF ScoreGreater(totalReadScore_hap1[readIdx], totalReadScore_hap2[readIdx])
       THEN hap1Reads' = hap1Reads \cup {readIdx} /\ hap2Reads' = hap2Reads
       ELSE IF ScoreGreater(totalReadScore_hap2[readIdx], totalReadScore_hap1[readIdx])
            THEN hap2Reads' = hap2Reads \cup {readIdx} /\ hap1Reads' = hap1Reads
            ELSE UNCHANGED <<hap1Reads, hap2Reads>>
    /\ readIdx' = readIdx + 1
    /\ UNCHANGED <<prPc, filteredReads, gFLength, primaryBubbleIdx, totalReadScore_hap1,
                   totalReadScore_hap2>>

PartitionFilteredReadsReturn ==
    /\ prPc = "reads"
    /\ readIdx \notin filteredReads
    /\ prPc' = "done"
    /\ UNCHANGED <<filteredReads, gFLength, primaryBubbleIdx, totalReadScore_hap1,
                   totalReadScore_hap2, readIdx, hap1Reads, hap2Reads>>
(***************************************************************************)
(* bubbleGraph_getConsensusString on bubble graphs handed in by a caller   *)
(***************************************************************************)
\* length of the expanded reference string of a graph handed to the stitcher
MaxRefLength == 4
\* number of bubbles of a graph handed to the stitcher
MaxGivenBubbles == 2

\* the expanded strings of length 1..n over A and C
RECURSIVE ExpandedStrings(_)
ExpandedStrings(n) ==
    IF n = 0 THEN {}
    ELSE ExpandedStrings(n - 1) \cup [1..n -> {"A", "C"}]

\* the alleles a bubble offers besides its reference allele
AlternativeAlleles == ExpandedStrings(2)

\* the bubbles of a graph: start and length of each, in ascending order and
\* without overlap, inside a reference string of refLength elements
RECURSIVE BubbleLayouts(_, _, _)
BubbleLayouts(from, refLength, m) ==
    {<<>>} \cup
    (IF m = 0 THEN {}
     ELSE UNION {{<<[refStart |-> s, bubbleLength |-> l]>> \o rest :
                     rest \in BubbleLayouts(s + l, refLength, m - 1)} :
                 s \in from..(refLength - 1), l \in 1..2})

\* a Bubble with two alleles; with shift 1 the reference allele starts one
\* element before refStart, as in the graphs of the POA-driven builder
GivenBubble(refString, layout, shift, alternative, useRunLengthEncoding) ==
    LET refAllele == rleString_copySubstring(refString, layout.refStart - shift,
                                             layout.bubbleLength)
    IN  [refStart |-> layout.refStart,
         bubbleLength |-> layout.bubbleLength,
         variantPositionOffsets |-> <<>>,
         refAllele |-> refAllele,
         readNo |-> 0,
         reads |-> <<>>,
         alleleNo |-> 2,
         alleles |-> <<refAllele, ConstructByMode(alternative, useRunLengthEncoding)>>,
         alleleOffset |-> -1]

RECURSIVE GivenBubbles(_, _, _, _, _)
GivenBubbles(refString, layouts, shift, alternative, useRunLengthEncoding) ==
    IF layouts = <<>> THEN <<>>
    ELSE <<GivenBubble(refString, Head(layouts), shift, alternative, useRunLengthEncoding)>>
         \o GivenBubbles(refString, Tail(layouts), shift, alternative, useRunLengthEncoding)

\* the graphs: a reference string, bubbles that end inside it, and an
\* alternative allele that differs from every reference allele
GivenGraphs(useRunLengthEncoding) ==
    {BubbleGraphOf(refString, GivenBubbles(refString, layouts, shift, alternative,
                                           useRunLengthEncoding)) :
        <<refString, layouts, shift, alternative>> \in
            {t \in {ConstructByMode(s, useRunLengthEncoding) : s \in ExpandedStrings(MaxRefLength)}
                   \X BubbleLayouts(0, MaxRefLength, MaxGivenBubbles)
                   \X {0, 1} \X AlternativeAlleles :
                /\ \A x \in 1..Len(t[2]) :
                      /\ t[2][x].refStart - t[3] >= 0
                      /\ t[2][x].refStart + t[2][x].bubbleLength <= Len(t[1])
                      /\ rleString_copySubstring(t[1], t[2][x].refStart - t[3],
                                                 t[2][x].bubbleLength)
                             # ConstructByMode(t[4], useRunLengthEncoding)}}

\* the consensus paths with valid allele indices
ConsensusPaths(graph) == [1..graph.bubbleNo -> 0..1]

\* a caller has a graph and is about to call the stitcher
StInit ==
    /\ builder = "given"
    /\ \E useRunLengthEncoding \in BOOLEAN :
          /\ params = PolishParams(useRunLengthEncoding, FALSE, FALSE, FALSE, 1)
          /\ bg \in GivenGraphs(useRunLengthEncoding)
    /\ poa = NoPoa
    /\ bamChunkReads = <<>>
    /\ vcfEntries = <<>>
    /\ bgPc = "built"
    /\ build = NoBuild
    /\ stitch = NoStitch
    /\ consensus = NoConsensus

StitcherEnterWithPath ==
    /\ bgPc = "built" /\ builder = "given"
    /\ \E path \in ConsensusPaths(bg) :
          stitch' = [path |-> path, mode |-> "given", locals |-> StitchInit]
    /\ bgPc' = "stitch"
    /\ UNCHANGED <<builder, params, poa, bamChunkReads, vcfEntries, build, bg, consensus>>
(***************************************************************************)
(* bubbleGraph_getProfileSeqs: the quantized profile of a read             *)
(*                                                                         *)
(* An allele support is a log likelihood k * ln 2.  For a bubble with two  *)
(* alleles totalLogProb - logProb is ln(1 + 2^d), d being the exponent of  *)
(* the other allele minus that of the allele itself.                       *)
(***************************************************************************)
\* number of bubbles of the graph handed to bubbleGraph_getProfileSeqs
MaxProfileBubbles == 2

VARIABLES
    pfPc,           \* where the call stands
    pfBubbles,      \* bg->bubbles: alleleNo, alleleOffset and, for each read
                    \* aligned to the bubble, its supports of the alleles
    pfI,            \* index i of the loop over the bubbles
    pfJ,            \* index j of the loop over the reads of bubble i
    readEnds,       \* read -> the last bubble the read is part of, or -1
    profileSeqs     \* read -> its profile sequence (the hash readsToPSeqs)

pfVars == <<pfPc, pfBubbles, pfI, pfJ, readEnds, profileSeqs>>

\* the quantization constant of the profile bytes
PROFILE_PROB_SCALAR == 30

\* the reads of the bubble graph
ProfileReads == {0, 1}

\* what a read has at a bubble: no substring, or the exponents of its
\* supports of the two alleles
NoSubstring == <<>>
SupportVectors == {<<0, 0>>, <<-1, 0>>, <<0, -12>>, <<-13, 0>>}

\* ln(1 + 2^d) times 10^6, for the differences d of the support exponents
LogOnePlusPow2 ==
    [d \in {-13, -12, -1, 0, 1, 12, 13} |->
        CASE d = -13 -> 122
          [] d = -12 -> 244
          [] d = -1 -> 405465
          [] d = 0 -> 693147
          [] d = 1 -> 1098612
          [] d = 12 -> 8318010
          [] d = 13 -> 9011035]

\* totalLogProb - logProb for allele k of a two-allele bubble, times 10^6
LogProbDeficit(supports, k) == LogOnePlusPow2[supports[3 - k] - supports[k]]

\* roundf(PROFILE_PROB_SCALAR * (totalLogProb - logProb))
RoundedDeficit(supports, k) ==
    (PROFILE_PROB_SCALAR * LogProbDeficit(supports, k) + 500000) \div 1000000

\* a quantization without the clamp, the value wrapping as a byte does
ProfileProbMutant(supports, k) == RoundedDeficit(supports, k) % 256

\* l > 255 ? 255 : l
ProfileProb(supports, k) ==
    IF RoundedDeficit(supports, k) > 255 THEN 255 ELSE RoundedDeficit(supports, k)

\* the reads of a bubble in the order of b->reads
RECURSIVE BubbleReads(_, _)
BubbleReads(attached, r) ==
    IF r \notin ProfileReads THEN <<>>
    ELSE (IF attached[r] = NoSubstring THEN <<>>
          ELSE <<[read |-> r, alleleReadSupports |-> attached[r]]>>)
         \o BubbleReads(attached, r + 1)

\* the bubbles of a graph: two alleles each, allele offsets as the builders
\* fill them in
RECURSIVE ProfileBubbles(_, _)
ProfileBubbles(layout, i) ==
    IF i > Len(layout) THEN <<>>
    ELSE <<[alleleNo |-> 2, alleleOffset |-> 2 * (i - 1),
            reads |-> BubbleReads(layout[i], 0)]>>
         \o ProfileBubbles(layout, i + 1)

ProfileLayouts(n) ==
    UNION {[1..m -> [ProfileReads -> {NoSubstring} \cup SupportVectors]] : m \in 1..n}

NoProfileSeq == [refStart |-> -1, length |-> 0, alleleOffset |-> 0, profileProbs |-> <<>>]

\* stProfileSeq_constructEmptyProfile: a profile of zero bytes for the
\* alleles of the bubbles refStart .. refStart + length - 1
RECURSIVE ZeroBytes(_)
ZeroBytes(n) == IF n = 0 THEN <<>> ELSE <<0>> \o ZeroBytes(n - 1)

stProfileSeq_constructEmptyProfile(bubbles, refStart, length) ==
    [refStart |-> refStart,
     length |-> length,
     alleleOffset |-> bubbles[refStart + 1].alleleOffset,
     profileProbs |-> ZeroBytes(bubbles[refStart + length].alleleOffset
                                + bubbles[refStart + length].alleleNo
                                - bubbles[refStart + 1].alleleOffset)]

\* the writes of the loop over the alleles of a bubble into profileProbs
RECURSIVE WriteProfileProbs(_, _, _, _, _)
WriteProfileProbs(profileProbs, alleleOffset, supports, alleleNo, k) ==
    IF k > alleleNo THEN profileProbs
    ELSE WriteProfileProbs(
             SubSeq(profileProbs, 1, alleleOffset + k - 1)
                 \o <<ProfileProb(supports, k)>>
                 \o SubSeq(profileProbs, alleleOffset + k + 1, Len(profileProbs)),
             alleleOffset, supports, alleleNo, k + 1)

PfIdle ==
    /\ pfPc = "idle"
    /\ pfBubbles = <<>>
    /\ pfI = 0
    /\ pfJ = 0
    /\ readEnds = <<>>
    /\ profileSeqs = <<>>

PfInit ==
    /\ pfPc = "ends"
    /\ \E layout \in ProfileLayouts(MaxProfileBubbles) : pfBubbles = ProfileBubbles(layout, 1)
    /\ pfI = 0
    /\ pfJ = 0
    /\ readEnds = [r \in ProfileReads |-> -1]
    /\ profileSeqs = [r \in ProfileReads |-> NoProfileSeq]

\* the first loop, for bubble i: k[0] = i for every read of the bubble
ReadEndsStep ==
    /\ pfPc = "ends"
    /\ pfI < Len(pfBubbles)
    /\ readEnds' = [r \in ProfileReads |->
                       IF \E x \in 1..Len(pfBubbles[pfI + 1].reads) :
                              pfBubbles[pfI + 1].reads[x].read = r
                       THEN pfI ELSE readEnds[r]]
    /\ pfI' = pfI + 1
    /\ UNCHANGED <<pfPc, pfBubbles, pfJ, profileSeqs>>

ReadEndsReturn ==
    /\ pfPc = "ends"
    /\ pfI = Len(pfBubbles)
    /\ pfPc' = "profiles"
    /\ pfI' = 0
    /\ UNCHANGED <<pfBubbles, pfJ, readEnds, profileSeqs>>

\* the second loop, for read j of bubble i: the profile sequence is made
\* when the read is met first, and the bytes of the bubble are written
ProfileStep ==
    /\ pfPc = "profiles"
    /\ pfI < Len(pfBubbles)
    /\ pfJ < Len(pfBubbles[pfI + 1].reads)
    /\ LET b == pfBubbles[pfI + 1]
           s == b.reads[pfJ + 1]
           pSeq == IF profileSeqs[s.read] = NoProfileSeq
                   THEN stProfileSeq_constructEmptyProfile(pfBubbles, pfI,
                                                           readEnds[s.read] - pfI + 1)
                   ELSE profileSeqs[s.read]
           alleleOffset == b.alleleOffset - pSeq.alleleOffset
       IN  profileSeqs' =
               [profileSeqs EXCEPT ![s.read] =
                   [pSeq EXCEPT !.profileProbs =
                       WriteProfileProbs(@, alleleOffset, s.alleleReadSupports,
                                         b.alleleNo, 1)]]
    /\ pfJ' = pfJ + 1
    /\ UNCHANGED <<pfPc, pfBubbles, pfI, readEnds>>

\* the reads of bubble i are done
ProfileNextBubble ==
    /\ pfPc = "profiles"
    /\ pfI < Len(pfBubbles)
    /\ pfJ = Len(pfBubbles[pfI + 1].reads)
    /\ pfI' = pfI + 1
    /\ pfJ' = 0
    /\ UNCHANGED <<pfPc, pfBubbles, readEnds, profileSeqs>>

GetProfileSeqsReturn ==
    /\ pfPc = "profiles"
    /\ pfI = Len(pfBubbles)
    /\ pfPc' = "done"
    /\ UNCHANGED <<pfBubbles, pfI, pfJ, readEnds, profileSeqs>>
(***************************************************************************)
(* The allele supports of a bubble and their cache, in                     *)
(* bubbleGraph_constructFromPoaAndVCF.  A forward probability is held as   *)
(* the term <<allele, read substring, state machine>> it is computed from: *)
(* the two state machines of the parameters are different objects.         *)
(***************************************************************************)
\* number of reads of the bubble
MaxSupportReads == 3

VARIABLES
    suPc,               \* where the loop over the reads stands
    suBubble,           \* the bubble: alleles, and reads with their
                        \* substring and strand
    suK,                \* index k of the loop over the reads
    cachedScores,       \* the hash: pairs of a read substring and an index
    alleleReadSupports  \* for each read done, its supports of the alleles

suVars == <<suPc, suBubble, suK, cachedScores, alleleReadSupports>>

\* the alleles of the bubble and the substrings the reads may have
SupportAlleles == <<rleString_construct(<<"A">>), rleString_construct(<<"A", "A">>)>>
SupportSubstrings == {rleString_construct(<<"A">>), rleString_construct(<<"A", "A">>), rleString_construct(<<"T">>)}

RECURSIVE SupportReadLists(_)
SupportReadLists(m) ==
    IF m = 0 THEN {<<>>}
    ELSE SupportReadLists(m - 1)
         \cup {Append(h, [substring |-> s, forwardStrand |-> f]) :
                  h \in {y \in SupportReadLists(m - 1) : Len(y) = m - 1},
                  s \in SupportSubstrings, f \in BOOLEAN}

\* the compressed bases of an RleString
RECURSIVE RleBases(_)
RleBases(r) == IF r = <<>> THEN <<>> ELSE <<Head(r).c>> \o RleBases(Tail(r))

rleString_stringEqualKey(key1, key2) == RleBases(key1) = RleBases(key2)

rleString_expandedStringEqualKey(key1, key2) ==
    /\ rleString_stringEqualKey(key1, key2)
    /\ Len(key1) = Len(key2)
    /\ \A x \in 1..Len(key1) : key1[x].n = key2[x].n

\* the state machine of a read by its strand
StateMachineOf(read) ==
    IF read.forwardStrand THEN "stateMachineForForwardStrandRead"
    ELSE "stateMachineForReverseStrandRead"

\* computeForwardProbability(allele, read substring, no anchor pairs, sM)
computeForwardProbability(allele, substring, sM) == <<allele, substring, sM>>

\* stHash_search(cachedScores, readSubstring): the entries with an equal key
CacheHits(cache, readSubstring) ==
    {x \in 1..Len(cache) : rleString_expandedStringEqualKey(cache[x].key, readSubstring)}

RECURSIVE SupportsOfAlleles(_, _, _)
SupportsOfAlleles(alleles, substring, sM) ==
    IF alleles = <<>> THEN <<>>
    ELSE <<computeForwardProbability(Head(alleles), substring, sM)>>
         \o SupportsOfAlleles(Tail(alleles), substring, sM)

SuIdle ==
    /\ suPc = "idle"
    /\ suBubble = [alleles |-> <<>>, reads |-> <<>>]
    /\ suK = 0
    /\ cachedScores = <<>>
    /\ alleleReadSupports = <<>>

SuInit ==
    /\ suPc = "reads"
    /\ \E rs \in SupportReadLists(MaxSupportReads) :
          suBubble = [alleles |-> SupportAlleles, reads |-> rs]
    /\ suK = 0
    /\ cachedScores = <<>>
    /\ alleleReadSupports = <<>>

\* read k: its supports are copied from the read the cache names, or
\* computed with the state machine of its strand and entered in the cache
SupportsStep ==
    /\ suPc = "reads"
    /\ suK < Len(suBubble.reads)
    /\ LET read == suBubble.reads[suK + 1]
           hits == CacheHits(cachedScores, read.substring)
       IN  IF hits # {}
           THEN /\ alleleReadSupports' =
                       Append(alleleReadSupports,
                              alleleReadSupports[cachedScores[CHOOSE x \in hits : TRUE].index + 1])
                /\ cachedScores' = cachedScores
           ELSE /\ cachedScores' = Append(cachedScores, [key |-> read.substring, index |-> suK])
                /\ alleleReadSupports' =
                       Append(alleleReadSupports,
                              SupportsOfAlleles(suBubble.alleles, read.substring,
                                                StateMachineOf(read)))
    /\ suK' = suK + 1
    /\ UNCHANGED <<suPc, suBubble>>

SupportsReturn ==
    /\ suPc = "reads"
    /\ suK = Len(suBubble.reads)
    /\ suPc' = "done"
    /\ UNCHANGED <<suBubble, suK, cachedScores, alleleReadSupports>>
(***************************************************************************)
(* updateCandidateVariantPositionsByVcfEntries: the candidate variant      *)
(* positions are overwritten from a list of VCF entries in position order  *)
(***************************************************************************)
\* cvpLength, the number of nodes of the POA
MaxMaskLength == 3
\* number of VCF entries of the list
MaxMaskEntries == 3

VARIABLES
    vmPc,                   \* where the call stands
    vmPositions,            \* candidateVariantPositions
    vmEntries,              \* vcfEntries: the refPos of each entry
    vmI,                    \* index i of the loop over the positions
    vmNext                  \* number of entries the iterator has returned

vmVars == <<vmPc, vmPositions, vmEntries, vmI, vmNext>>

\* the lists of at most m entries; an entry may lie before the first or
\* after the last position, and entries may share a position
RECURSIVE OrderedRefPosLists(_)
OrderedRefPosLists(m) ==
    IF m = 0 THEN {<<>>}
    ELSE OrderedRefPosLists(m - 1)
         \cup {Append(h, [refPos |-> p]) :
                  h \in {y \in OrderedRefPosLists(m - 1) : Len(y) = m - 1},
                  p \in -1..MaxMaskLength}

InPositionOrder(entries) ==
    \A x \in 1..(Len(entries) - 1) : entries[x].refPos <= entries[x + 1].refPos

\* vcfEntry after the iterator has returned n entries: NULL past the end
CurrentEntry(entries, n) == IF n <= Len(entries) THEN [isNull |-> FALSE, refPos |-> entries[n].refPos] ELSE [isNull |-> TRUE, refPos |-> 0]

VmIdle ==
    /\ vmPc = "idle"
    /\ vmPositions = <<>>
    /\ vmEntries = <<>>
    /\ vmI = 0
    /\ vmNext = 0

\* the iterator has returned the first entry before the loop
VmInit ==
    /\ vmPc = "loop"
    /\ vmPositions \in [1..MaxMaskLength -> BOOLEAN]
    /\ vmEntries \in {l \in OrderedRefPosLists(MaxMaskEntries) : InPositionOrder(l)}
    /\ vmI = 0
    /\ vmNext = 1

\* position i: the flag becomes isVCF, and the iterator moves on when the
\* entry is at or before i
VcfMaskStep ==
    /\ vmPc = "loop"
    /\ vmI < Len(vmPositions)
    /\ LET vcfEntry == CurrentEntry(vmEntries, vmNext)
           isVCF == ~vcfEntry.isNull /\ vcfEntry.refPos = vmI
       IN  /\ vmPositions' = [vmPositions EXCEPT ![vmI + 1] = isVCF]
           /\ vmNext' = IF ~vcfEntry.isNull /\ vcfEntry.refPos <= vmI
                        THEN vmNext + 1 ELSE vmNext
    /\ vmI' = vmI + 1
    /\ UNCHANGED <<vmPc, vmEntries>>

VcfMaskReturn ==
    /\ vmPc = "loop"
    /\ vmI = Len(vmPositions)
    /\ vmPc' = "done"
    /\ UNCHANGED <<vmPositions, vmEntries, vmI, vmNext>>
(***************************************************************************)
(* getReadSubstrings2 on an interior interval: the walk through the        *)
(* observations of fromNode and toNode, which may hold several             *)
(* observations of a read                                                  *)
(***************************************************************************)
\* number of observations of a node
MaxObservations == 2

VARIABLES
    obPc,               \* where the call stands
    fromObservations,   \* fromNode->observations after sortBaseObservations
    toObservations,     \* toNode->observations after sortBaseObservations
    obSubstrings        \* the list the call returns

obVars == <<obPc, fromObservations, toObservations, obSubstrings>>

\* the reads of the chunk, without qualities
ObservedReads == <<[qualities |-> <<>>], [qualities |-> <<>>]>>

ObservationWeights == {1, 2}

\* poaBaseObservation_cmp: ascending read number, then descending weight
poaBaseObservation_cmp(obs1, obs2) ==
    IF obs1.readNo # obs2.readNo THEN (IF obs1.readNo < obs2.readNo THEN -1 ELSE 1)
    ELSE IF obs1.weight # obs2.weight THEN (IF obs1.weight > obs2.weight THEN -1 ELSE 1)
    ELSE 0

\* the sorted lists of at most m observations with offsets in offsets
RECURSIVE SortedObservations(_, _)
SortedObservations(m, offsets) ==
    IF m = 0 THEN {<<>>}
    ELSE SortedObservations(m - 1, offsets)
         \cup {Append(h, [readNo |-> r, offset |-> o, weight |-> w]) :
                  h \in {y \in SortedObservations(m - 1, offsets) : Len(y) = m - 1},
                  r \in 0..(Len(ObservedReads) - 1), o \in offsets, w \in ObservationWeights}

IsSorted(obs) ==
    \A x \in 1..(Len(obs) - 1) : poaBaseObservation_cmp(obs[x], obs[x + 1]) <= 0

ObIdle ==
    /\ obPc = "idle"
    /\ fromObservations = <<>>
    /\ toObservations = <<>>
    /\ obSubstrings = <<>>

ObInit ==
    /\ obPc = "call"
    /\ fromObservations \in {l \in SortedObservations(MaxObservations, {1, 2}) : IsSorted(l)}
    /\ toObservations \in {l \in SortedObservations(MaxObservations, {2, 3}) : IsSorted(l)}
    /\ obSubstrings = <<>>

\* getReadSubstrings2 with 0 < from, to < the number of nodes and
\* shouldFilter off
InteriorReadSubstrings ==
    /\ obPc = "call"
    /\ obSubstrings' = MergeObservations(ObservedReads, fromObservations, toObservations)
    /\ obPc' = "done"
    /\ UNCHANGED <<fromObservations, toObservations>>

(***************************************************************************)
(* Specifications: one for each subsystem, the other two being idle        *)
(***************************************************************************)
LpcIdle ==
    /\ queryPhasedVariants = <<>>
    /\ truthPhasedVariants = <<>>
    /\ decay = 0
    /\ lpcPc = "idle"
    /\ sweep = NoSweep
    /\ sw = SwitchInit
    /\ forwardSums = <<0, 0>>
    /\ reverseSums = <<0, 0>>
    /\ lengthOut = -1
    /\ correctness = [num |-> 0, den |-> 0]

vars == <<lpcVars, bgVars, phVars, flVars, prVars, pfVars, suVars, vmVars, obVars>>

\* the bubble graph builders and the consensus stitcher
Init == BgInit /\ LpcIdle /\ PhIdle /\ FlIdle /\ PrIdle /\ PfIdle /\ SuIdle /\ VmIdle /\ ObIdle

Next ==
    \/ PoaBuilderStart /\ UNCHANGED <<lpcVars, phVars, flVars, prVars, pfVars, suVars, vmVars, obVars>>
    \/ PoaBuilderStep /\ UNCHANGED <<lpcVars, phVars, flVars, prVars, pfVars, suVars, vmVars, obVars>>
    \/ CandidateAllelesStep /\ UNCHANGED <<lpcVars, phVars, flVars, prVars, pfVars, suVars, vmVars, obVars>>
    \/ PoaBuilderReturn /\ UNCHANGED <<lpcVars, phVars, flVars, prVars, pfVars, suVars, vmVars, obVars>>
    \/ VcfBuilderStart /\ UNCHANGED <<lpcVars, phVars, flVars, prVars, pfVars, suVars, vmVars, obVars>>
    \/ VcfBuilderStep /\ UNCHANGED <<lpcVars, phVars, flVars, prVars, pfVars, suVars, vmVars, obVars>>
    \/ VcfAlleleBuilderReturn /\ UNCHANGED <<lpcVars, phVars, flVars, prVars, pfVars, suVars, vmVars, obVars>>
    \/ VcfSubstringsBuilderReturn /\ UNCHANGED <<lpcVars, phVars, flVars, prVars, pfVars, suVars, vmVars, obVars>>
    \/ StitcherEnter /\ UNCHANGED <<lpcVars, phVars, flVars, prVars, pfVars, suVars, vmVars, obVars>>
    \/ StitcherStep /\ UNCHANGED <<lpcVars, phVars, flVars, prVars, pfVars, suVars, vmVars, obVars>>
    \/ StitcherReturn /\ UNCHANGED <<lpcVars, phVars, flVars, prVars, pfVars, suVars, vmVars, obVars>>

Spec == Init /\ [][Next]_vars

\* local phasing correctness
InitLPC == LpcInit /\ BgIdle /\ PhIdle /\ FlIdle /\ PrIdle /\ PfIdle /\ SuIdle /\ VmIdle /\ ObIdle

NextLPC ==
    \/ PhasingCorrectnessAbort /\ UNCHANGED <<bgVars, phVars, flVars, prVars, pfVars, suVars, vmVars, obVars>>
    \/ PhasingCorrectnessEnter /\ UNCHANGED <<bgVars, phVars, flVars, prVars, pfVars, suVars, vmVars, obVars>>
    \/ SwitchCorrectnessStep /\ UNCHANGED <<bgVars, phVars, flVars, prVars, pfVars, suVars, vmVars, obVars>>
    \/ SwitchCorrectnessReturn /\ UNCHANGED <<bgVars, phVars, flVars, prVars, pfVars, suVars, vmVars, obVars>>
    \/ ForwardSweepStep /\ UNCHANGED <<bgVars, phVars, flVars, prVars, pfVars, suVars, vmVars, obVars>>
    \/ ForwardSweepReturn /\ UNCHANGED <<bgVars, phVars, flVars, prVars, pfVars, suVars, vmVars, obVars>>
    \/ BackwardSweepStep /\ UNCHANGED <<bgVars, phVars, flVars, prVars, pfVars, suVars, vmVars, obVars>>
    \/ BackwardSweepReturn /\ UNCHANGED <<bgVars, phVars, flVars, prVars, pfVars, suVars, vmVars, obVars>>

SpecLPC == InitLPC /\ [][NextLPC]_vars

\* the phasing driver
InitPhase == PhInit /\ LpcIdle /\ BgIdle /\ FlIdle /\ PrIdle /\ PfIdle /\ SuIdle /\ VmIdle /\ ObIdle

NextPhase ==
    \/ PhaseBubbleGraphEnter /\ UNCHANGED <<lpcVars, bgVars, flVars, prVars, pfVars, suVars, vmVars, obVars>>
    \/ PhaseEmptyReturn /\ UNCHANGED <<lpcVars, bgVars, flVars, prVars, pfVars, suVars, vmVars, obVars>>
    \/ PhaseParamsCopy /\ UNCHANGED <<lpcVars, bgVars, flVars, prVars, pfVars, suVars, vmVars, obVars>>
    \/ GetRPHmmsForward /\ UNCHANGED <<lpcVars, bgVars, flVars, prVars, pfVars, suVars, vmVars, obVars>>
    \/ GetRPHmmsReverse /\ UNCHANGED <<lpcVars, bgVars, flVars, prVars, pfVars, suVars, vmVars, obVars>>
    \/ ForwardBackward /\ UNCHANGED <<lpcVars, bgVars, flVars, prVars, pfVars, suVars, vmVars, obVars>>
    \/ GenomeFragmentConstruct /\ UNCHANGED <<lpcVars, bgVars, flVars, prVars, pfVars, suVars, vmVars, obVars>>
    \/ RefineIteration /\ UNCHANGED <<lpcVars, bgVars, flVars, prVars, pfVars, suVars, vmVars, obVars>>
    \/ RefineReturn /\ UNCHANGED <<lpcVars, bgVars, flVars, prVars, pfVars, suVars, vmVars, obVars>>
    \/ AddBackDiscarded /\ UNCHANGED <<lpcVars, bgVars, flVars, prVars, pfVars, suVars, vmVars, obVars>>
    \/ PhaseBubbleGraphReturn /\ UNCHANGED <<lpcVars, bgVars, flVars, prVars, pfVars, suVars, vmVars, obVars>>

SpecPhase == InitPhase /\ [][NextPhase]_vars

\* filterReadSubstrings
InitFilter == FlInit /\ LpcIdle /\ BgIdle /\ PhIdle /\ PrIdle /\ PfIdle /\ SuIdle /\ VmIdle /\ ObIdle

NextFilter ==
    \/ FilterSort /\ UNCHANGED <<lpcVars, bgVars, phVars, prVars, pfVars, suVars, vmVars, obVars>>
    \/ FilterPop /\ UNCHANGED <<lpcVars, bgVars, phVars, prVars, pfVars, suVars, vmVars, obVars>>
    \/ FilterReturn /\ UNCHANGED <<lpcVars, bgVars, phVars, prVars, pfVars, suVars, vmVars, obVars>>

SpecFilter == InitFilter /\ [][NextFilter]_vars

\* bubbleGraph_partitionFilteredReads
InitPartition == PrInit /\ LpcIdle /\ BgIdle /\ PhIdle /\ FlIdle /\ PfIdle /\ SuIdle /\ VmIdle /\ ObIdle

NextPartition ==
    \/ HomozygousBubbleStep /\ UNCHANGED <<lpcVars, bgVars, phVars, flVars, pfVars, suVars, vmVars, obVars>>
    \/ HeterozygousBubbleStep /\ UNCHANGED <<lpcVars, bgVars, phVars, flVars, pfVars, suVars, vmVars, obVars>>
    \/ BubbleLoopReturn /\ UNCHANGED <<lpcVars, bgVars, phVars, flVars, pfVars, suVars, vmVars, obVars>>
    \/ AssignReadStep /\ UNCHANGED <<lpcVars, bgVars, phVars, flVars, pfVars, suVars, vmVars, obVars>>
    \/ PartitionFilteredReadsReturn /\ UNCHANGED <<lpcVars, bgVars, phVars, flVars, pfVars, suVars, vmVars, obVars>>

SpecPartition == InitPartition /\ [][NextPartition]_vars

\* the consensus stitcher on graphs handed in by a caller
InitStitch == StInit /\ LpcIdle /\ PhIdle /\ FlIdle /\ PrIdle /\ PfIdle /\ SuIdle /\ VmIdle /\ ObIdle

NextStitch ==
    \/ StitcherEnterWithPath /\ UNCHANGED <<lpcVars, phVars, flVars, prVars, pfVars, suVars, vmVars, obVars>>
    \/ StitcherStep /\ UNCHANGED <<lpcVars, phVars, flVars, prVars, pfVars, suVars, vmVars, obVars>>
    \/ StitcherReturn /\ UNCHANGED <<lpcVars, phVars, flVars, prVars, pfVars, suVars, vmVars, obVars>>

SpecStitch == InitStitch /\ [][NextStitch]_vars

\* bubbleGraph_getProfileSeqs
InitProfile == PfInit /\ LpcIdle /\ BgIdle /\ PhIdle /\ FlIdle /\ PrIdle /\ SuIdle /\ VmIdle /\ ObIdle

NextProfile ==
    \/ ReadEndsStep /\ UNCHANGED <<lpcVars, bgVars, phVars, flVars, prVars, suVars, vmVars, obVars>>
    \/ ReadEndsReturn /\ UNCHANGED <<lpcVars, bgVars, phVars, flVars, prVars, suVars, vmVars, obVars>>
    \/ ProfileStep /\ UNCHANGED <<lpcVars, bgVars, phVars, flVars, prVars, suVars, vmVars, obVars>>
    \/ ProfileNextBubble /\ UNCHANGED <<lpcVars, bgVars, phVars, flVars, prVars, suVars, vmVars, obVars>>
    \/ GetProfileSeqsReturn /\ UNCHANGED <<lpcVars, bgVars, phVars, flVars, prVars, suVars, vmVars, obVars>>

SpecProfile == InitProfile /\ [][NextProfile]_vars

\* the allele supports of a bubble
InitSupports == SuInit /\ LpcIdle /\ BgIdle /\ PhIdle /\ FlIdle /\ PrIdle /\ PfIdle /\ VmIdle /\ ObIdle

NextSupports ==
    \/ SupportsStep /\ UNCHANGED <<lpcVars, bgVars, phVars, flVars, prVars, pfVars, vmVars, obVars>>
    \/ SupportsReturn /\ UNCHANGED <<lpcVars, bgVars, phVars, flVars, prVars, pfVars, vmVars, obVars>>

SpecSupports == InitSupports /\ [][NextSupports]_vars

\* updateCandidateVariantPositionsByVcfEntries
InitVcfMask == VmInit /\ LpcIdle /\ BgIdle /\ PhIdle /\ FlIdle /\ PrIdle /\ PfIdle /\ SuIdle /\ ObIdle

NextVcfMask ==
    \/ VcfMaskStep /\ UNCHANGED <<lpcVars, bgVars, phVars, flVars, prVars, pfVars, suVars, obVars>>
    \/ VcfMaskReturn /\ UNCHANGED <<lpcVars, bgVars, phVars, flVars, prVars, pfVars, suVars, obVars>>

SpecVcfMask == InitVcfMask /\ [][NextVcfMask]_vars

\* getReadSubstrings2 on an interior interval
InitSubstrings == ObInit /\ LpcIdle /\ BgIdle /\ PhIdle /\ FlIdle /\ PrIdle /\ PfIdle /\ VmIdle /\ SuIdle

NextSubstrings ==
    \/ InteriorReadSubstrings /\ UNCHANGED <<lpcVars, bgVars, phVars, flVars, prVars, pfVars, suVars, vmVars>>

SpecSubstrings == InitSubstrings /\ [][NextSubstrings]_vars

(* ---- properties of local phasing correctness ---- *)
\* a quotient num/den is the number 1.0 (0/0 is NaN, not 1.0)
IsOne(r) == r.den # 0 /\ r.num = r.den

\* a quotient num/den is a number of [0, 1] (NaN is not)
InUnitInterval(r) ==
    /\ r.den # 0
    /\ IF r.den > 0 THEN 0 <= r.num /\ r.num <= r.den
                    ELSE r.den <= r.num /\ r.num <= 0

\* two quotients are the same value; two undefined quotients 0/0 agree
SameValue(a, b) ==
    IF a.den = 0 \/ b.den = 0 THEN a.den = b.den /\ a.num = b.num
    ELSE a.num * b.den = b.num * a.den

\* the shared matchable heterozygous sites of two call sets, by position
SharedPositions(q, t) ==
    {p \in {q[x].refPos : x \in DOMAIN q} :
        \E x \in DOMAIN q : \E y \in DOMAIN t :
            /\ q[x].refPos = p /\ t[y].refPos = p
            /\ Matchable(q[x], t[y])}

SiteAt(q, t, p) ==
    LET qpv == q[CHOOSE x \in DOMAIN q : q[x].refPos = p]
        tpv == t[CHOOSE y \in DOMAIN t : t[y].refPos = p]
    IN  [inPhase |-> MatchAlleles(qpv, tpv).m11,
         queryPhaseSet |-> qpv.phaseSet, truthPhaseSet |-> tpv.phaseSet]

\* relative phase of two shared sites agrees between the two call sets
Concordant(a, b) ==
    (a.queryPhaseSet = b.queryPhaseSet /\ a.truthPhaseSet = b.truthPhaseSet)
        => (a.inPhase = b.inPhase)

\* global pairwise concordance, computed directly over unordered pairs
PairwiseConcordance(q, t) ==
    LET ps == SharedPositions(q, t)
        pairs == {pr \in ps \X ps : pr[1] < pr[2]}
        good == {pr \in pairs : Concordant(SiteAt(q, t, pr[1]), SiteAt(q, t, pr[2]))}
    IN  [num |-> Cardinality(good), den |-> Cardinality(pairs)]

\* switch correctness, computed directly over consecutive shared sites
AdjacentConcordance(q, t) ==
    LET ps == SharedPositions(q, t)
        pairs == {pr \in ps \X ps :
                     pr[1] < pr[2] /\ ~\E m \in ps : pr[1] < m /\ m < pr[2]}
        good == {pr \in pairs : Concordant(SiteAt(q, t, pr[1]), SiteAt(q, t, pr[2]))}
    IN  [num |-> Cardinality(good), den |-> Cardinality(ps) - 1]

\* one phase set throughout, and the query is the truth with the phase of
\* every variant from index k onward swapped
PhaseSwappedFrom(q, t, k) ==
    /\ Len(q) = Len(t)
    /\ \A x \in DOMAIN q :
          /\ q[x].refPos = t[x].refPos
          /\ q[x].phaseSet = q[1].phaseSet /\ t[x].phaseSet = t[1].phaseSet
          /\ q[x].alleles = t[x].alleles
          /\ AlleleOf(t[x], t[x].gt1) # AlleleOf(t[x], t[x].gt2)
          /\ IF x < k THEN q[x].gt1 = t[x].gt1 /\ q[x].gt2 = t[x].gt2
                      ELSE q[x].gt1 = t[x].gt2 /\ q[x].gt2 = t[x].gt1

\* phasingCorrectness has returned from a call whose lists are sorted by
\* position, as its callers promise
LpcDone ==
    /\ lpcPc = "done"
    /\ ~OutOfOrder(queryPhasedVariants) /\ ~OutOfOrder(truthPhasedVariants)

\* C6: with query identical to truth and at least one shared matchable
\* heterozygous variant, phasingCorrectness returns exactly 1.0 for every
\* decay and every layout of the phase sets.
C6_IdenticalCallSetsScoreOne ==
    (LpcDone /\ queryPhasedVariants = truthPhasedVariants /\ lengthOut >= 1)
        => IsOne(correctness)

\* C7: the value returned by phasingCorrectness lies in [0, 1].
C7_CorrectnessInUnitInterval ==
    LpcDone => InUnitInterval(correctness)

\* C8: phasingCorrectness(A, B, d) and phasingCorrectness(B, A, d) return
\* the same value and the same count of shared variants.
C8_SymmetricInCallSets ==
    LpcDone =>
        LET swapped == PhasingCorrectnessOf(truthPhasedVariants, queryPhasedVariants, decay)
        IN  /\ SameValue(correctness, swapped.value)
            /\ lengthOut = swapped.lengthOut

\* C9: at decay 1 phasingCorrectness is the global pairwise concordance
\* computed directly over the unordered pairs of shared matchable variants.
C9_DecayOneIsPairwiseConcordance ==
    (LpcDone /\ decay = One) =>
        SameValue(correctness,
                  PairwiseConcordance(queryPhasedVariants, truthPhasedVariants))

\* C10: at decay 0 phasingCorrectness is (correct consecutive pairs)/(n - 1)
\* over the n shared matchable variants, and (n-2)/(n-1) when the query is
\* the truth with the phase swapped from one interior index onward.
C10_DecayZeroIsSwitchCorrectness ==
    (LpcDone /\ decay = 0) =>
        LET direct == AdjacentConcordance(queryPhasedVariants, truthPhasedVariants)
            n == Len(queryPhasedVariants)
        IN  /\ correctness = [num |-> direct.num * One, den |-> direct.den * One]
            /\ lengthOut = direct.den + 1
            /\ \A k \in 2..n :
                  PhaseSwappedFrom(queryPhasedVariants, truthPhasedVariants, k)
                      => correctness = [num |-> (n - 2) * One, den |-> (n - 1) * One]

\* a finished run at decay 0 over at least three variants of one phase set
\* whose phase is swapped from an interior index onward
C10_Witness ==
    /\ LpcDone /\ decay = 0
    /\ Len(queryPhasedVariants) >= 3
    /\ \E k \in 2..Len(queryPhasedVariants) :
          PhaseSwappedFrom(queryPhasedVariants, truthPhasedVariants, k)
    /\ correctness.num > 0

\* C11: phasingCorrectness called with a decay below 0 or above 1 aborts:
\* no sweep and no switch count is started, and neither a score nor a count
\* of shared variants is returned
C11_BadDecayAborts ==
    (decay < 0 \/ decay > One) =>
        /\ lpcPc \in {"entry", "aborted"}
        /\ sweep = NoSweep
        /\ sw = SwitchInit
        /\ forwardSums = <<0, 0>> /\ reverseSums = <<0, 0>>
        /\ lengthOut = -1
        /\ correctness = [num |-> 0, den |-> 0]

\* a call with decay 3/2 over two non-empty lists has aborted
C11_Witness ==
    /\ lpcPc = "aborted"
    /\ decay > One
    /\ queryPhasedVariants # <<>> /\ truthPhasedVariants # <<>>

\* C12: a list with a variant that lies before its predecessor does not
\* stop the computation: for every decay in [0, 1] the run goes on to
\* return a score
C12_OutOfOrderVariantIsSkipped ==
    ((OutOfOrder(queryPhasedVariants) \/ OutOfOrder(truthPhasedVariants))
        /\ decay >= 0 /\ decay <= One)
        => lpcPc # "aborted"

(* ---- properties of the bubble graph builders and of the stitcher ---- *)
\* a builder has returned its graph
Built == bgPc \in {"built", "stitch", "stitched"}

\* the reference allele of b is one of its alleles
HoldsReferenceAllele(b) ==
    \E x \in 1..Len(b.alleles) : rleString_eq(b.alleles[x], b.refAllele)

\* C1: every bubble the POA-driven builder makes, with the alleles taken
\* from the reads or from the POA, has at least two alleles, and its
\* reference allele is one of them
C1_PoaBubblesHoldReferenceAllele ==
    builder = "poa" =>
        \A b \in Range(build.bubbles) \cup Range(bg.bubbles) :
            /\ b.alleleNo >= 2
            /\ b.alleleNo = Len(b.alleles)
            /\ HoldsReferenceAllele(b)

\* a graph built from read alleles with a bubble in which no read carries
\* the reference allele: the builder added it
C1_Witness ==
    /\ Built /\ builder = "poa" /\ UseReadAlleles(params)
    /\ \E x \in 1..bg.bubbleNo :
          LET b == bg.bubbles[x]
          IN  /\ ~containsString(getCandidateAllelesFromReadSubstrings(bamChunkReads, b.reads),
                                 rleString_expand(b.refAllele))
              /\ bubble_getReferenceAlleleIndex(b) = b.alleleNo - 1

\* C2: the bubbles of the POA-driven builder come in strictly increasing
\* refStart order and their spans do not overlap
C2_PoaBubblesAscendWithoutOverlap ==
    Built /\ builder = "poa" =>
        \A x, y \in 1..bg.bubbleNo :
            x < y => /\ bg.bubbles[x].refStart < bg.bubbles[y].refStart
                     /\ bg.bubbles[x].refStart + bg.bubbles[x].bubbleLength
                            <= bg.bubbles[y].refStart

\* two bubbles with a single anchor between them
C2_Witness ==
    /\ Built /\ builder = "poa" /\ bg.bubbleNo >= 2
    /\ bg.bubbles[1].refStart + bg.bubbles[1].bubbleLength + 1 = bg.bubbles[2].refStart

\* the number of alleles of the first x bubbles
RECURSIVE AlleleNoSum(_, _)
AlleleNoSum(bubbles, x) ==
    IF x = 0 THEN 0 ELSE AlleleNoSum(bubbles, x - 1) + bubbles[x].alleleNo

\* C3: in the graph any of the three builders returns, the allele offset of
\* a bubble is the number of alleles of the bubbles before it, and
\* totalAlleles is the number of alleles of all bubbles
C3_AlleleOffsetsArePrefixSums ==
    Built =>
        /\ bg.bubbleNo = Len(bg.bubbles)
        /\ \A x \in 1..bg.bubbleNo :
              bg.bubbles[x].alleleOffset = AlleleNoSum(bg.bubbles, x - 1)
        /\ bg.totalAlleles = AlleleNoSum(bg.bubbles, bg.bubbleNo)

\* a graph of VCF entries in which a bubble of three alleles comes first
C3_Witness ==
    /\ Built /\ builder = "vcfSubstrings" /\ bg.bubbleNo >= 2
    /\ bg.bubbles[1].alleleNo = 3
    /\ bg.bubbles[2].alleleOffset = 3
    /\ bg.totalAlleles = 5

\* C5: on a graph of the POA-driven builder, the stitcher given the
\* reference allele of every bubble returns the reference string, with
\* run-length encoding on or off
C5_ReferencePathReproducesReference ==
    bgPc = "stitched" /\ builder = "poa" /\ stitch.mode = "reference" =>
        consensus.newConsensusString = bg.refString

RetryAt(e) ==
    getCandidateConsensusSubstrings(poa, build.pAnchor + 1, build.i,
                                    build.candidateWeights, e, params.maxConsensusStrings)

\* C13: with the alleles taken from the POA, the retry loop over the weight
\* adjustments 1, 1.5, 2.25, ... ends: from every pass of the loop there is
\* a later pass, finitely many raises away, at which the enumerator returns
\* a set of alleles rather than the too-many signal
C13_RetryLoopTerminates ==
    bgPc = "candidates" =>
        /\ params.maxConsensusStrings >= 1
        /\ \E e \in build.e..MaxRetries :
              /\ ~RetryAt(e).isNull
              /\ RetryAt(e).strings # <<>>

\* the loop has been answered "too many" twice with a single string allowed
C13_Witness ==
    /\ bgPc = "candidates"
    /\ build.e >= 2
    /\ params.maxConsensusStrings = 1
    /\ RetryAt(build.e).isNull

\* the ordering invariant: each bubble starts at or after the end of the
\* bubble before it
OrderingInvariant(graph) ==
    \A x \in 1..(graph.bubbleNo - 1) :
        graph.bubbles[x].refStart + graph.bubbles[x].bubbleLength
            <= graph.bubbles[x + 1].refStart

\* C16: for a graph that satisfies the ordering invariant and a consensus
\* path of valid allele indices, the index j that the stitcher tracks ends
\* as the length of the concatenated pieces once re-encoded (runs with
\* run-length encoding on, characters with it off): the final assertion holds
C16_TrackedIndexIsConsensusLength ==
    (bgPc = "stitched" /\ OrderingInvariant(bg)) =>
        /\ consensus.j = Len(consensus.newConsensusString)
        /\ consensus.lengthIsJ
        /\ consensus.newConsensusString =
              ConstructByMode(rleString_expand(consensus.newConsensusString),
                              params.useRunLengthEncoding)

\* with run-length encoding on, the stitcher has walked two bubbles, taken
\* an alternative allele, and returned a string with fewer runs than the
\* pieces it joined
C16_Witness ==
    /\ bgPc = "stitched"
    /\ params.useRunLengthEncoding
    /\ bg.bubbleNo = 2
    /\ \E x \in 1..2 : stitch.path[x] = 1
    /\ Len(consensus.newConsensusString) < Len(stitch.locals.consensusSubstrings)

\* C17: in a graph of the POA-driven builder refStart is the 0-based index
\* of refString at which the reference allele of the bubble begins: the
\* bubbleLength elements of refString from refStart on are the reference
\* allele
C17_RefStartIsOffsetOfReferenceAllele ==
    (Built /\ builder = "poa") =>
        \A x \in 1..bg.bubbleNo :
            LET b == bg.bubbles[x]
            IN  b.refAllele = rleString_copySubstring(bg.refString, b.refStart, b.bubbleLength)

\* C18: the alleles of every bubble of the POA-driven builder are pairwise
\* distinct, whether they come from the reads or from the candidate
\* enumerator
C18_AllelesPairwiseDistinct ==
    builder = "poa" =>
        \A b \in Range(build.bubbles) \cup Range(bg.bubbles) :
            \A x, y \in 1..Len(b.alleles) :
                x # y => ~rleString_eq(b.alleles[x], b.alleles[y])

\* C20: in the phasing driver the parameters read while the tiling paths of
\* the two strands are built have ancestor substitution probabilities
\* switched off, and the parameters read by forward-backward and by the
\* traceback on the fused HMM have them switched on
C20_AncestorSubProbOffThenOn ==
    /\ consulted.getRPHmmsForward \in {-1, 0}
    /\ consulted.getRPHmmsReverse \in {-1, 0}
    /\ consulted.forwardBackward \in {-1, 1}
    /\ consulted.forwardTraceBack \in {-1, 1}

\* |a - b|
AbsDiff(a, b) == IF a >= b THEN a - b ELSE b - a

\* C22: position j is an anchor iff no candidate variant position i has
\* |i - j| <= columnAnchorTrim, the trim reaching as far to the right of a
\* candidate variant position as to the left
C22_AnchorsAreComplementOfSymmetricExpansion ==
    (builder = "poa" /\ bgPc # "start") =>
        \A j \in 0..(Len(poa.nodes) - 1) :
            build.anchors[j + 1] <=>
                ~\E i \in 0..(Len(poa.nodes) - 1) :
                    /\ build.candidateVariantPositions[i + 1]
                    /\ AbsDiff(i, j) <= params.columnAnchorTrim

\* the lengths of the deletions after node i whose weight is above the
\* candidate weight of the node
CandidateDeleteLengthsAt(i) ==
    Range(CandidateDeletes(poa.nodes[i + 1].deletes, build.candidateWeights[i + 1], 0))

\* C23: a node i with a candidate deletion of length d makes every position
\* of i .. i + d a candidate variant position, for every d >= 1
C23_CandidateDeletionFlagsItsWholeSpan ==
    (builder = "poa" /\ bgPc # "start") =>
        \A i \in 0..(Len(poa.nodes) - 1) :
            \A d \in CandidateDeleteLengthsAt(i) :
                \A x \in i..(i + d) : build.candidateVariantPositions[x + 1]

\* C25: the variant position offsets of every bubble of the POA-driven
\* builder are the offsets v of 0 .. bubbleLength - 1 for which position
\* refStart + v of the POA is a candidate variant position
C25_OffsetsAreFlaggedPositionsFromRefStart ==
    builder = "poa" =>
        \A x \in 1..Len(build.bubbles) :
            LET b == build.bubbles[x]
            IN  Range(b.variantPositionOffsets) =
                    {v \in 0..(b.bubbleLength - 1) :
                        build.candidateVariantPositions[b.refStart + v + 1]}

\* C26 as stated: in every bubble of the POA-driven builder the reads are
\* in ascending order of their index in the list of reads
C26_ReadsAscendByReadIndex ==
    builder = "poa" =>
        \A x \in 1..Len(build.bubbles) :
            \A k, l \in 1..Len(build.bubbles[x].reads) :
                k < l => build.bubbles[x].reads[k].read < build.bubbles[x].reads[l].read

\* C26 amended: in every bubble of the POA-driven builder the reads are the
\* list that filterReadSubstrings has sorted by descending qualValue, taken
\* from its end: for k < l the qualValue of reads[k] is at most that of
\* reads[l]
C26_ReadsAscendByQualValue ==
    builder = "poa" =>
        \A x \in 1..Len(build.bubbles) :
            \A k, l \in 1..Len(build.bubbles[x].reads) :
                k < l => build.bubbles[x].reads[k].qualValue
                             <= build.bubbles[x].reads[l].qualValue

\* a graph is built with a bubble whose two reads differ in qualValue and
\* are in descending order of read index
C26_Witness ==
    /\ builder = "poa"
    /\ bgPc = "built"
    /\ \E x \in 1..Len(bg.bubbles) :
          /\ Len(bg.bubbles[x].reads) = 2
          /\ bg.bubbles[x].reads[1].qualValue < bg.bubbles[x].reads[2].qualValue
          /\ bg.bubbles[x].reads[1].read > bg.bubbles[x].reads[2].read

\* the reads of the fragment that changed sets in the step
ChangedSets ==
    {r \in gF.reads1 \cup gF.reads2 : (r \in gF.reads1) # (r \in gF'.reads1)}

\* C28: the refinement runs at most roundsOfIterativeRefinement passes; a
\* pass moves a read only when its log probability given the other
\* haplotype is strictly greater, so that a tied read stays; the pass in
\* which no read of either side is to move is the last and changes nothing;
\* and with roundsOfIterativeRefinement = 0 the read sets and the genome
\* fragment are those of the construction
C28_RefinementMovesStrictlyBetterReads ==
    [][phPc = "refine" =>
          /\ iteration' <= roundsOfIterativeRefinement
          /\ \A r \in ChangedSets :
                IF r \in gF.reads1 THEN readLogProbs'[r][1] < readLogProbs'[r][2]
                ELSE readLogProbs'[r][2] < readLogProbs'[r][1]
          /\ (iteration' > iteration /\ ChangedSets = {}) =>
                (phPc' = "addBack" /\ gF' = gF /\ pathPartitions' = pathPartitions)
          /\ (iteration' > iteration /\ ChangedSets # {}) => phPc' = "refine"
          /\ roundsOfIterativeRefinement = 0 =>
                (phPc' = "addBack" /\ gF' = gF /\ pathPartitions' = pathPartitions)]_vars

\* the refinement has left its loop in its second pass, the first pass
\* having moved a read, and a read with equal log probabilities is in the
\* set it was in
C28_Witness ==
    /\ phPc = "addBack"
    /\ it = discardedReadsSet
    /\ iteration = 2
    /\ roundsOfIterativeRefinement = 2
    /\ reads1To2 = {} /\ reads2To1 = {}
    /\ \E r \in gF.reads1 : readLogProbs[r][1] = readLogProbs[r][2]

\* bit i of a partition
BitOf(partition, i) == (partition \div Pow(2, i)) % 2

\* reads1 and reads2 are disjoint, together they are as many as the profile
\* sequences of the HMM, and in each column of the path bit i is set exactly
\* when seqHeaders[i] is in reads1
PartitionMatchesPath(g, path) ==
    /\ g.reads1 \cap g.reads2 = {}
    /\ Cardinality(g.reads1) + Cardinality(g.reads2) = Len(rpHmm.profileSeqs)
    /\ Len(path) = Len(rpHmm.columns)
    /\ \A c \in DOMAIN path :
          /\ path[c] < Pow(2, rpHmm.columns[c].depth)
          /\ \A i \in 0..(rpHmm.columns[c].depth - 1) :
                (BitOf(path[c], i) = 1) <=> (rpHmm.columns[c].seqHeaders[i + 1] \in g.reads1)

\* C30: a pass of the refinement that starts with reads1 and reads2
\* disjoint, as many as the profile sequences of the HMM, and with the bits
\* of the partitions of the path telling the reads of reads1, ends so; and in
\* each column the bit of a read differs after the pass exactly when the
\* read changed sets in the pass
C30_PassKeepsPartitionAndPathConsistent ==
    [][(phPc = "refine" /\ PartitionMatchesPath(gF, pathPartitions)) =>
          /\ PartitionMatchesPath(gF', pathPartitions')
          /\ \A c \in DOMAIN pathPartitions :
                \A i \in 0..(rpHmm.columns[c].depth - 1) :
                   (BitOf(pathPartitions'[c], i) # BitOf(pathPartitions[c], i))
                       <=> (rpHmm.columns[c].seqHeaders[i + 1] \in ChangedSets)]_vars

\* a pass has moved the second read of the first column from reads2 to
\* reads1 and left the first read in reads1
C30_Witness ==
    /\ phPc = "refine"
    /\ iteration = 1
    /\ Len(rpHmm.profileSeqs) = 2
    /\ reads1To2 = {}
    /\ reads2To1 = {rpHmm.profileSeqs[2]}
    /\ gF.reads1 = {rpHmm.profileSeqs[1], rpHmm.profileSeqs[2]}
    /\ pathPartitions = <<3, 1>>

\* C29: for a bubble the POA-driven builder makes between the anchors
\* pAnchor and i, bubbleGraph_partitionFilteredReads takes the read
\* substrings between the POA nodes the builder took them between, from
\* pAnchor + 1 to i, and so takes from the reads the substrings that
\* getReadSubstrings2 gives for the builder's interval
C29_FilteredReadsUseBuilderInterval ==
    [][(builder = "poa" /\ Len(build'.bubbles) > Len(build.bubbles)) =>
          LET primaryBubble == build'.bubbles[Len(build'.bubbles)]
          IN  /\ FilteredReadSubstringsInterval(primaryBubble)
                     = [from |-> build.pAnchor + 1, to |-> build.i]
              /\ FilteredReadSubstrings(bamChunkReads, primaryBubble)
                     = getReadSubstrings2(bamChunkReads, poa, build.pAnchor + 1, build.i,
                                          params, FALSE)]_vars

(***************************************************************************)
(* Properties of filterReadSubstrings                                      *)
(***************************************************************************)
\* the substrings of the input that the list no longer holds
Dropped == Range(flInput) \ Range(readSubstrings)

Min(a, b) == IF a < b THEN a ELSE b

\* C14: filterReadSubstrings drops substrings only from the low end of the
\* quality order (no kept substring is worse than a dropped one), drops a
\* substring only when its quality is below minAvgBaseQuality and is not
\* -1, keeps at least min(input size, coverage) substrings, and drops
\* nothing when no substring has qualities
C14_FilterDropsOnlyLowQualityTail ==
    flPc \in {"loop", "done"} =>
        /\ Range(readSubstrings) \subseteq Range(flInput)
        /\ Len(readSubstrings) + Cardinality(Dropped) = Len(flInput)
        /\ InQualOrder(readSubstrings)
        /\ \A d \in Dropped :
              /\ \A k \in Range(readSubstrings) : k.qualValue >= d.qualValue
              /\ d.qualValue < flParams.minAvgBaseQuality
              /\ d.qualValue # -1
        /\ Len(readSubstrings) >=
              Min(Len(flInput), flParams.filterReadsWhileHaveAtLeastThisCoverage)
        /\ (\A x \in Range(flInput) : x.qualValue = -1) => Dropped = {}

\* a call has returned after dropping two substrings and keeping one that is
\* below the minimum quality as well, because of the coverage floor
C14_Witness ==
    /\ flPc = "done"
    /\ Cardinality(Dropped) = 2
    /\ \E k \in Range(readSubstrings) : k.qualValue < flParams.minAvgBaseQuality

(***************************************************************************)
(* Properties of bubbleGraph_partitionFilteredReads                        *)
(***************************************************************************)
\* the accumulated scores of a read, times 10^6
Acc1(r) == ScoreValue(totalReadScore_hap1[r])
Acc2(r) == ScoreValue(totalReadScore_hap2[r])

\* C15 as stated: after the rescuer has finished a read is in hap1Reads iff
\* acc1 > acc2, in hap2Reads iff acc2 > acc1, never in both, and in neither
\* only if both of its accumulated scores are zero
C15_UnclassifiedOnlyWithZeroScores ==
    prPc = "done" =>
        \A r \in filteredReads :
            /\ r \in hap1Reads <=> Acc1(r) > Acc2(r)
            /\ r \in hap2Reads <=> Acc2(r) > Acc1(r)
            /\ ~(r \in hap1Reads /\ r \in hap2Reads)
            /\ (r \notin hap1Reads /\ r \notin hap2Reads)
                  => (totalReadScore_hap1[r] = ZeroScore /\ totalReadScore_hap2[r] = ZeroScore)

\* C15 as amended: after the rescuer has finished a read is in hap1Reads
\* iff acc1 > acc2, in hap2Reads iff acc2 > acc1, never in both, and in
\* neither exactly when neither score exceeds the other, zero or not
C15_ReadsPlacedByGreaterScore ==
    prPc = "done" =>
        \A r \in filteredReads :
            /\ r \in hap1Reads <=> Acc1(r) > Acc2(r)
            /\ r \in hap2Reads <=> Acc2(r) > Acc1(r)
            /\ ~(r \in hap1Reads /\ r \in hap2Reads)
            /\ (r \notin hap1Reads /\ r \notin hap2Reads)
                  <=> (~(Acc1(r) > Acc2(r)) /\ ~(Acc2(r) > Acc1(r)))

\* the rescuer has finished with one read in hap1Reads, and one read left
\* out whose two scores are equal and not zero
C15_Witness ==
    /\ prPc = "done"
    /\ hap1Reads # {}
    /\ \E r \in filteredReads :
          /\ r \notin hap1Reads /\ r \notin hap2Reads
          /\ Acc1(r) = Acc2(r)
          /\ totalReadScore_hap1[r] # ZeroScore

(***************************************************************************)
(* Properties of bubbleGraph_getProfileSeqs                                *)
(***************************************************************************)
\* the bubbles (numbered from 0) of the span of a profile sequence
SpanOf(pSeq) == pSeq.refStart..(pSeq.refStart + pSeq.length - 1)

\* the byte of allele k (from 1) of bubble i in the profile of a read
ProfileByte(pSeq, i, k) ==
    pSeq.profileProbs[pfBubbles[i + 1].alleleOffset - pSeq.alleleOffset + k]

\* the supports of bubble i by read r, NoSubstring if r is not aligned to it
SupportsOf(i, r) ==
    LET b == pfBubbles[i + 1]
        at == {x \in 1..Len(b.reads) : b.reads[x].read = r}
    IN  IF at = {} THEN NoSubstring ELSE b.reads[CHOOSE x \in at : TRUE].alleleReadSupports

MinByte(pSeq, i) ==
    LET bytes == {ProfileByte(pSeq, i, k) : k \in 1..pfBubbles[i + 1].alleleNo}
    IN  CHOOSE m \in bytes : \A n \in bytes : m <= n

\* round(PROFILE_PROB_SCALAR * ln 2), the byte of either of two alleles
\* with equal supports
RoundedScalarLn2 == (PROFILE_PROB_SCALAR * LogOnePlusPow2[0] + 500000) \div 1000000

\* C19 as stated: in every profile sequence built by
\* bubbleGraph_getProfileSeqs the smallest profile byte over the alleles of
\* every bubble in the span is 0.
C19_MinimumProfileByteIsZero ==
    pfPc = "done" =>
        \A r \in ProfileReads :
            profileSeqs[r] # NoProfileSeq =>
                \A i \in SpanOf(profileSeqs[r]) : MinByte(profileSeqs[r], i) = 0

\* C19 amended: in every profile sequence built by
\* bubbleGraph_getProfileSeqs, for every bubble in the span that the read is
\* aligned to, each byte is round(PROFILE_PROB_SCALAR * (logsumexp of the
\* supports - the support)) held to 0..255, and the smallest byte over the
\* alleles is that of an allele with the greatest support: it is at most
\* round(PROFILE_PROB_SCALAR * ln(number of alleles)), not always 0.
C19_ProfileBytesAreClampedDeficits ==
    pfPc = "done" =>
        \A r \in ProfileReads :
            profileSeqs[r] # NoProfileSeq =>
                \A i \in SpanOf(profileSeqs[r]) :
                    LET s == SupportsOf(i, r)
                        pSeq == profileSeqs[r]
                    IN  s # NoSubstring =>
                            /\ \A k \in 1..2 :
                                   /\ ProfileByte(pSeq, i, k) \in 0..255
                                   /\ ProfileByte(pSeq, i, k) =
                                          IF RoundedDeficit(s, k) > 255 THEN 255
                                          ELSE RoundedDeficit(s, k)
                            /\ \E k \in 1..2 :
                                   /\ s[k] >= s[3 - k]
                                   /\ MinByte(pSeq, i) = ProfileByte(pSeq, i, k)
                            /\ MinByte(pSeq, i) <= RoundedScalarLn2

\* a finished call in which a read has a bubble with a clamped byte and a
\* bubble whose two bytes are equal and not 0
C19_Witness ==
    /\ pfPc = "done"
    /\ \E r \in ProfileReads :
           /\ profileSeqs[r] # NoProfileSeq
           /\ \E i1, i2 \in SpanOf(profileSeqs[r]) :
                  /\ SupportsOf(i1, r) = <<-13, 0>>
                  /\ ProfileByte(profileSeqs[r], i1, 1) = 255
                  /\ SupportsOf(i2, r) = <<0, 0>>
                  /\ MinByte(profileSeqs[r], i2) = RoundedScalarLn2
                  /\ RoundedScalarLn2 > 0

(***************************************************************************)
(* Properties of the allele supports                                       *)
(***************************************************************************)
\* C21: the cache of scores is transparent: the stored support of allele j
\* by read k is the forward probability of the substring of read k against
\* allele j under the state machine of the strand of read k, also when an
\* earlier read of the other strand has the same substring
C21_CachedSupportsAreOwnStrandSupports ==
    \A k \in 1..Len(alleleReadSupports) :
        \A j \in 1..Len(suBubble.alleles) :
            alleleReadSupports[k][j] =
                computeForwardProbability(suBubble.alleles[j], suBubble.reads[k].substring,
                                          StateMachineOf(suBubble.reads[k]))

(***************************************************************************)
(* Properties of updateCandidateVariantPositionsByVcfEntries               *)
(***************************************************************************)
\* C24: after the call, with a list of entries in position order, a position
\* is flagged iff an entry of the list has it as refPos, whatever the flags
\* were, also when entries share a refPos or lie outside the positions
C24_FlagsAreVcfMask ==
    vmPc = "done" =>
        \A i \in 0..(Len(vmPositions) - 1) :
            vmPositions[i + 1] <=> \E x \in 1..Len(vmEntries) : vmEntries[x].refPos = i

(***************************************************************************)
(* Properties of getReadSubstrings2 on an interior interval                *)
(***************************************************************************)
\* the first observation of read r in a sorted list, which has the highest
\* weight of the observations of r
HighestWeightObservation(obs, r) ==
    obs[CHOOSE x \in 1..Len(obs) :
            obs[x].readNo = r /\ \A y \in 1..(x - 1) : obs[y].readNo # r]

Observed(obs, r) == \E x \in 1..Len(obs) : obs[x].readNo = r

\* C27: on an interior interval, without filtering, the call returns at
\* most one substring for a read, in ascending order of read index, and one
\* for read r exactly when r is observed at both nodes and its
\* highest-weight offsets have to_offset > from_offset; the substring starts
\* at from_offset and has length to_offset - from_offset
C27_InteriorSubstringsByHighestWeight ==
    obPc = "done" =>
        /\ \A k, l \in 1..Len(obSubstrings) :
               k < l => obSubstrings[k].read < obSubstrings[l].read
        /\ \A r \in 0..(Len(ObservedReads) - 1) :
               LET both == Observed(fromObservations, r) /\ Observed(toObservations, r)
                   fromOffset == HighestWeightObservation(fromObservations, r).offset
                   toOffset == HighestWeightObservation(toObservations, r).offset
                   found == {k \in 1..Len(obSubstrings) : obSubstrings[k].read = r}
               IN  IF both /\ toOffset > fromOffset
                   THEN /\ found # {}
                        /\ \A k \in found :
                               /\ obSubstrings[k].start = fromOffset
                               /\ obSubstrings[k].length = toOffset - fromOffset
                   ELSE found = {}

\* the call has returned a substring for a read that has two observations
\* at each node, the second of which would give another substring
C27_Witness ==
    /\ obPc = "done"
    /\ Len(obSubstrings) = 1
    /\ Len(fromObservations) = 2 /\ Len(toObservations) = 2
    /\ \A x \in 1..2 : fromObservations[x].readNo = 0 /\ toObservations[x].readNo = 0
    /\ fromObservations[1].weight > fromObservations[2].weight
    /\ toObservations[1].offset > fromObservations[1].offset
    /\ toObservations[2].offset > fromObservations[2].offset
    /\ fromObservations[1].offset # fromObservations[2].offset

====
